---- MODULE Spec2Model ----
(***************************************************************************)
(* Magic-link authentication, session gate, webhook ingestion and the      *)
(* tenant-scoped aggregation of the xenor-intern admin application.        *)
(*                                                                         *)
(* Strings are sequences of one-character strings, so that toLowerCase,    *)
(* trim and the e-mail pattern are computed, not assumed.  Time is the     *)
(* wall clock in milliseconds.  An async function is one step per await:   *)
(* the synchronous code up to the await together with the awaited store    *)
(* operation.                                                              *)
(***************************************************************************)
EXTENDS Integers, Sequences, FiniteSets, TLC

VARIABLES
  today,           \* the calendar day of the wall clock, counted from the start
  now,             \* Date.now(), in ms, within the day
  magicLinkToken,  \* table MagicLinkToken: set of rows
  user,            \* table User: set of rows
  session,         \* table Session: set of rows
  sendCall,        \* sendMagicLink invocations, by slot
  verifyCall,      \* /login/verify requests (verifyMagicLink + createLoginSession), by slot
  gateReq,         \* dashboard / portal requests, by slot
  orders,          \* table Order
  customers,       \* table Customer
  products,        \* table Product
  nextRowId,       \* autoincrement primary key of the webhook tables
  delivery,        \* webhook deliveries, by slot
  resp             \* last response of the aggregation loaders

authVars == <<today, now, magicLinkToken, user, session, sendCall, verifyCall>>
hookVars == <<orders, customers, products, nextRowId, delivery>>
vars == <<today, now, magicLinkToken, user, session, sendCall, verifyCall,
          gateReq, orders, customers, products, nextRowId, delivery, resp>>

-----------------------------------------------------------------------------
(* Bounds of the model *)

MaxCalls == 3
MaxSend == 2
MaxOffset == 1

MaxDeliveries == 2

MaxOrders == 2

MaxCustomers == 2

\* customers in the store of a ranking
MaxRanked == 6

\* characters in the value of a cookie
MaxValue == 2

-----------------------------------------------------------------------------
(* Strings *)

\* String.prototype.toLowerCase on the alphabet of the model
LowerChar(c) ==
  CASE c = "A" -> "a"
    [] c = "B" -> "b"
    [] c = "S" -> "s"
    [] OTHER -> c

ToLowerCase(s) == [i \in DOMAIN s |-> LowerChar(s[i])]

IsSpace(c) == c = " "

\* String.prototype.trim: drop leading and trailing white space
RECURSIVE TrimLeft(_)
TrimLeft(s) ==
  IF s # <<>> /\ IsSpace(Head(s)) THEN TrimLeft(Tail(s)) ELSE s

RECURSIVE TrimRight(_)
TrimRight(s) ==
  IF s # <<>> /\ IsSpace(s[Len(s)]) THEN TrimRight(SubSeq(s, 1, Len(s) - 1)) ELSE s

Trim(s) == TrimRight(TrimLeft(s))

\* [^\s@]+ : a non-empty run without white space and without "@"
Plain(s) == s # <<>> /\ \A i \in DOMAIN s : ~IsSpace(s[i]) /\ s[i] # "@"

\* /^[^\s@]+@[^\s@]+\.[^\s@]+$/.test(email)
EmailPattern(s) ==
  \E i, j \in DOMAIN s :
    /\ i < j
    /\ s[i] = "@"
    /\ s[j] = "."
    /\ Plain(SubSeq(s, 1, i - 1))
    /\ Plain(SubSeq(s, i + 1, j - 1))
    /\ Plain(SubSeq(s, j + 1, Len(s)))

-----------------------------------------------------------------------------
(* Inputs *)

\* raw e-mail addresses a client may post: "a@x.y", "A@x.y " and "b@x.y"
\* are well formed after normalisation, "ax" is not
RawEmails ==
  { <<"a", "@", "x", ".", "y">>,
    <<"A", "@", "x", ".", "y", " ">>,
    <<"b", "@", "x", ".", "y">>,
    <<"a", "x">> }

\* the address links are issued to while verification is examined: "A@x.y "
IssueEmails == { <<"A", "@", "x", ".", "y", " ">> }

\* e-mail query parameters of a verification link
LinkEmails ==
  { <<"A", "@", "x", ".", "y">>,
    <<"b", "@", "x", ".", "y">> }

-----------------------------------------------------------------------------
(* auth.server.ts: helpers *)

RateLimitMs == 30000
LinkTtlMs == 15 * 60000

\* createHash("sha256").update(token).digest("hex"): one-way, collision free
hashToken(token) == <<"sha256", token>>

\* randomBytes(32).toString("hex"): a value no earlier call has produced
genToken == <<Cardinality(magicLinkToken) + 1>>

\* token query parameters: the tokens mailed so far and one that never was
LinkTokens ==
  { sendCall[s].token : s \in { q \in DOMAIN sendCall : sendCall[q].mailed } }
    \cup { <<Cardinality(magicLinkToken) + 1>> }

\* prisma.magicLinkToken.findFirst({ where: { email, createdAt: { gt } } })
FindRecent(email, since) ==
  { r \in magicLinkToken : r.email = email /\ r.createdAt > since }

\* prisma.magicLinkToken.findUnique({ where: { tokenHash } })
FindToken(tokenHash) == { r \in magicLinkToken : r.tokenHash = tokenHash }

\* a lookup that finds no user
FindUserNever(email) == {}

\* prisma.user.findUnique({ where: { email } })
FindUser(email) == { u \in user : u.email = email }

IdleSend ==
  [pc |-> "idle", rawEmail |-> <<>>, email |-> <<>>, recent |-> FALSE,
   token |-> <<>>, result |-> "pending", mailed |-> FALSE,
   t0 |-> 0, tDone |-> 0, prior |-> {}]

IdleVerify ==
  [pc |-> "idle", token |-> <<>>, email |-> <<>>, rec |-> {}, usr |-> {},
   result |-> "pending", userId |-> 0, mint |-> "", cookie |-> <<>>, location |-> "",
   t0 |-> 0, afterSuccess |-> FALSE, consumed |-> FALSE]

\* the requests made so far
Started(calls) == Cardinality({ k \in DOMAIN calls : calls[k].pc # "idle" })

\* call slots are anonymous: they are taken in order
Free(calls, k) ==
  calls[k].pc = "idle" /\ (IF k = 1 THEN TRUE ELSE calls[k - 1].pc # "idle")

-----------------------------------------------------------------------------
(* auth.server.ts: sendMagicLink *)

\* the window written as 3 s
RateLimitedBriefly(email, t) == FindRecent(email, t - 3000) # {}

\* lines 73-76: a token row of this e-mail younger than 30 s exists
RateLimited(email, t) == FindRecent(email, t - RateLimitMs) # {}

\* lines 69-75: normalise, validate, look for a recent token
SendStart(s, raw) ==
  /\ Free(sendCall, s)
  /\ LET email == Trim(ToLowerCase(raw))
         begun == [IdleSend EXCEPT !.rawEmail = raw, !.email = email, !.t0 = now,
                     !.prior = { q \in DOMAIN sendCall :
                                   sendCall[q].pc = "done" /\ sendCall[q].result = "ok" }]
     IN sendCall' = [sendCall EXCEPT ![s] =
          IF ~EmailPattern(email)
          THEN [begun EXCEPT !.pc = "done", !.result = "invalid_email", !.tDone = now]
          ELSE [begun EXCEPT !.pc = "create", !.recent = RateLimited(email, now)]]
  /\ UNCHANGED <<now, magicLinkToken, user, session, verifyCall>>

\* lines 76-84: refuse, or store the hash of a fresh token with its expiry
SendCreate(s) ==
  /\ sendCall[s].pc = "create"
  /\ IF sendCall[s].recent
     THEN /\ sendCall' = [sendCall EXCEPT ![s].pc = "done", ![s].result = "rate_limit",
                                          ![s].tDone = now]
          /\ UNCHANGED magicLinkToken
     ELSE /\ magicLinkToken' = magicLinkToken \cup
               { [email |-> sendCall[s].email, tokenHash |-> hashToken(genToken),
                  createdAt |-> now, expiresAt |-> now + LinkTtlMs,
                  consumedAt |-> <<>>, attempts |-> 0] }
          /\ sendCall' = [sendCall EXCEPT ![s].pc = "email", ![s].token = genToken]
  /\ UNCHANGED <<now, user, session, verifyCall>>

\* lines 86-99 and sendEmail (47-65): the provider accepts the mail or the call throws
SendMail(s, accepted) ==
  /\ sendCall[s].pc = "email"
  /\ sendCall' = [sendCall EXCEPT ![s].pc = "done", ![s].tDone = now,
                                  ![s].mailed = accepted,
                                  ![s].result = IF accepted THEN "ok" ELSE "send_failed"]
  /\ UNCHANGED <<now, magicLinkToken, user, session, verifyCall>>

\* lines 68-100 as one step: the whole call, for the specifications in which
\* no other request runs during it
Issue(s, raw, accepted) ==
  /\ Free(sendCall, s)
  /\ LET email == Trim(ToLowerCase(raw))
         begun == [IdleSend EXCEPT !.rawEmail = raw, !.email = email, !.t0 = now,
                     !.tDone = now, !.pc = "done",
                     !.prior = { q \in DOMAIN sendCall :
                                   sendCall[q].pc = "done" /\ sendCall[q].result = "ok" }]
     IN IF ~EmailPattern(email)
        THEN /\ sendCall' = [sendCall EXCEPT ![s] = [begun EXCEPT !.result = "invalid_email"]]
             /\ UNCHANGED magicLinkToken
        ELSE IF RateLimited(email, now)
        THEN /\ sendCall' = [sendCall EXCEPT ![s] = [begun EXCEPT !.result = "rate_limit"]]
             /\ UNCHANGED magicLinkToken
        ELSE /\ magicLinkToken' = magicLinkToken \cup
                  { [email |-> email, tokenHash |-> hashToken(genToken),
                     createdAt |-> now, expiresAt |-> now + LinkTtlMs,
                     consumedAt |-> <<>>, attempts |-> 0] }
             /\ sendCall' = [sendCall EXCEPT ![s] =
                   [begun EXCEPT !.token = genToken, !.mailed = accepted,
                                 !.result = IF accepted THEN "ok" ELSE "send_failed"]]
  /\ UNCHANGED <<now, user, session, verifyCall>>

-----------------------------------------------------------------------------
(* auth.server.ts: verifyMagicLink, inside the loader of login.verify.tsx *)

\* the e-mail comparison left out
EmailMismatchIgnored(rec, email) == FALSE

\* line 112
EmailMismatch(rec, email) ==
  \E r \in rec : ToLowerCase(r.email) # ToLowerCase(email)

\* the expiry comparison left out
ExpiredIgnored(rec, t) == FALSE

\* line 113
Expired(rec, t) == \E r \in rec : r.expiresAt < t

\* the single-use test left out
ConsumedIgnored(rec) == FALSE

\* line 114: a Date is truthy, null is not
Consumed(rec) == \E r \in rec : r.consumedAt # <<>>

\* lines 110-115
Rejected(rec, email, t) ==
  rec = {} \/ EmailMismatch(rec, email) \/ Expired(rec, t) \/ Consumed(rec)

\* an update that writes the whole record anew
BumpAttemptsAnew(tokenHash, n) ==
  { IF r.tokenHash = tokenHash THEN [r EXCEPT !.attempts = n, !.consumedAt = <<>>] ELSE r :
      r \in magicLinkToken }

\* prisma.magicLinkToken.update({ where: { tokenHash }, data })
BumpAttempts(tokenHash, n) ==
  { IF r.tokenHash = tokenHash THEN [r EXCEPT !.attempts = n] ELSE r : r \in magicLinkToken }

MarkConsumed(tokenHash, t) ==
  { IF r.tokenHash = tokenHash THEN [r EXCEPT !.consumedAt = <<t>>] ELSE r : r \in magicLinkToken }

\* verifyMagicLink has returned a user id to this request
Returned(c) == c.result = "ok"

\* login.verify.tsx 9 and 31: the second loader lower-cases the parameter
EmailParam(email, mint) == IF mint = "userEmail" THEN ToLowerCase(email) ELSE email

\* login.verify.tsx 18 and 42: the first loader redirects on a failed
\* verification, the second answers 400 with a JSON body
FailureLocation(mint) ==
  IF mint \in {"userId", "portal"} THEN "/login?error=invalid_link" ELSE ""

\* login.verify.tsx 7-11, auth.server.ts 104-108.  mint names the loader:
\* "userId" is lines 6-20 (createLoginSession), "userEmail" is lines 28-44
\* (createUserSession), "portal" is part_001 6-18, which verifies an empty
\* token or e-mail as any other and redirects to /portal.
VerifyStart(v, token, email, mint) ==
  /\ Free(verifyCall, v)
  /\ LET begun == [IdleVerify EXCEPT !.token = token, !.t0 = now, !.mint = mint,
                     !.email = EmailParam(email, mint),
                     !.afterSuccess = \E w \in DOMAIN verifyCall :
                                         Returned(verifyCall[w]) /\ verifyCall[w].token = token]
     IN verifyCall' = [verifyCall EXCEPT ![v] =
          IF mint # "portal" /\ (token = <<>> \/ email = <<>>)
          THEN [begun EXCEPT !.pc = "done", !.result = "none", !.location = "/login"]
          ELSE [begun EXCEPT !.pc = "check", !.rec = FindToken(hashToken(token))]]
  /\ UNCHANGED <<now, magicLinkToken, user, session, sendCall>>

\* auth.server.ts 110-130, login.verify.tsx 17-19
VerifyCheck(v) ==
  /\ verifyCall[v].pc = "check"
  /\ LET c == verifyCall[v]
         h == hashToken(c.token)
     IN IF Rejected(c.rec, c.email, now)
        THEN /\ magicLinkToken' =
                  IF c.rec # {}
                  THEN BumpAttempts(h, (CHOOSE r \in c.rec : TRUE).attempts + 1)
                  ELSE magicLinkToken
             /\ verifyCall' = [verifyCall EXCEPT ![v].pc = "done", ![v].result = "invalid",
                                   ![v].location = FailureLocation(verifyCall[v].mint)]
        ELSE /\ magicLinkToken' = MarkConsumed(h, now)
             /\ verifyCall' = [verifyCall EXCEPT ![v].pc = "user", ![v].consumed = TRUE]
  /\ UNCHANGED <<now, user, session, sendCall>>

\* auth.server.ts 133
VerifyFindUser(v) ==
  /\ verifyCall[v].pc = "user"
  /\ verifyCall' = [verifyCall EXCEPT ![v].pc = "create",
        ![v].usr = FindUser((CHOOSE r \in verifyCall[v].rec : TRUE).email)]
  /\ UNCHANGED <<now, magicLinkToken, user, session, sendCall>>

\* auth.server.ts 134-136: User.email is unique, a second create of it throws
VerifyUser(v) ==
  /\ verifyCall[v].pc = "create"
  /\ LET c == verifyCall[v]
         email == (CHOOSE r \in c.rec : TRUE).email
         fresh == Cardinality(user) + 1
     IN IF c.usr # {}
        THEN /\ verifyCall' = [verifyCall EXCEPT ![v].pc = "session", ![v].result = "ok",
                                   ![v].userId = (CHOOSE u \in c.usr : TRUE).id]
             /\ UNCHANGED user
        ELSE IF FindUser(email) # {}
        THEN /\ verifyCall' = [verifyCall EXCEPT ![v].pc = "done", ![v].result = "error",
                                   ![v].location = FailureLocation(verifyCall[v].mint)]
             /\ UNCHANGED user
        ELSE /\ user' = user \cup { [id |-> fresh, email |-> email] }
             /\ verifyCall' = [verifyCall EXCEPT ![v].pc = "session", ![v].result = "ok",
                                   ![v].userId = fresh]
  /\ UNCHANGED <<now, magicLinkToken, session, sendCall>>

\* line 141
ttlDays == 30

\* line 142: new Date(Date.now() + ttlDays * 24 * 60 * 60 * 1000), kept as a
\* calendar day and the ms within it (the sum in ms does not fit 32 bits)
SessionExpiry(t) == [day |-> today + ttlDays, ms |-> t]

\* consumeMagicLink, the verifier the second loader of login.verify.tsx calls
\* (line 38), is not among the sources: it is taken to verify as
\* verifyMagicLink does and to return the e-mail of the record
consumeMagicLink(rec) == (CHOOSE r \in rec : TRUE).email

\* session.server.ts 31-35
createUserSession(email) == "userEmail" :> email

\* a session for nobody
createLoginSessionBlank(userId) == "userId" :> 0

\* auth.server.ts 144-150: the cookie of createLoginSession
createLoginSession(userId) == "userId" :> userId

\* auth.server.ts 140-151 (createLoginSession), login.verify.tsx 15-16;
\* session.server.ts 31-35 (createUserSession), login.verify.tsx 39-40
VerifySession(v) ==
  /\ verifyCall[v].pc = "session"
  /\ IF verifyCall[v].mint \in {"userId", "portal"}
     THEN /\ session' = session \cup
               { [userId |-> verifyCall[v].userId, expiresAt |-> SessionExpiry(now)] }
          /\ verifyCall' = [verifyCall EXCEPT ![v].pc = "done",
                                ![v].location = IF verifyCall[v].mint = "portal"
                                                THEN "/portal" ELSE "/dashboard",
                                ![v].cookie = createLoginSession(verifyCall[v].userId)]
     ELSE /\ UNCHANGED session
          /\ verifyCall' = [verifyCall EXCEPT ![v].pc = "done", ![v].location = "/dashboard",
                                ![v].cookie =
                                   createUserSession(consumeMagicLink(verifyCall[v].rec))]
  /\ UNCHANGED <<now, magicLinkToken, user, sendCall>>

\* the clock advances to a later instant
Tick(t) ==
  /\ t > now
  /\ now' = t
  /\ UNCHANGED <<magicLinkToken, user, session, sendCall, verifyCall>>

\* the instants examined: the first milliseconds, and those at which a span
\* that began in them has just elapsed
Around(span) == { k : k \in 0 .. MaxOffset } \cup { span + k : k \in 1 .. MaxOffset }

-----------------------------------------------------------------------------
(* session.server.ts, auth.server.ts: the session gate of the loaders *)

\* session.get(key): the value stored under the key, if any.  A cookie is the
\* signed session data; no cookie, or one that fails the signature, is <<>>.
SessionGet(cookie, key) == IF key \in DOMAIN cookie THEN {cookie[key]} ELSE {}

\* the key each loader's gate reads: requireUserEmail (session.server.ts 18-29)
\* for the dashboard, requireUserId (auth.server.ts 29-34) for the portal
GateKey(route) == IF route = "dashboard" THEN "userEmail" ELSE "userId"

\* the gate lets every request through
RedirectsNever(cookie, key) == FALSE

\* if (!email) throw redirect("/login") / if (!userId) throw redirect("/login")
Redirects(cookie, key) == SessionGet(cookie, key) = {}

\* the cookies the server has handed out
MintedCookies ==
  { verifyCall[v].cookie : v \in { w \in DOMAIN verifyCall : verifyCall[w].cookie # <<>> } }

\* day and at are the instant of the request, setCookie the session the
\* response's Set-Cookie header leaves the client with, follows the request
\* whose response supplied the cookie
IdleGate ==
  [pc |-> "idle", route |-> "", cookie |-> <<>>, queries |-> 0,
   location |-> "", body |-> "none", day |-> 0, at |-> 0, setCookie |-> <<>>,
   follows |-> 0]

\* dashboard._index.tsx 27-28, part_002 6-9: the gate is the first statement
Entered(route, cookie) ==
  LET begun == [IdleGate EXCEPT !.route = route, !.cookie = cookie, !.day = today, !.at = now]
  IN IF Redirects(cookie, GateKey(route))
     THEN [begun EXCEPT !.pc = "done", !.location = "/login"]
     ELSE IF route = "portal"
     THEN [begun EXCEPT !.pc = "done", !.body = "null"]
     ELSE [begun EXCEPT !.pc = "tenants"]

GateEnter(r, route, cookie) ==
  /\ Free(gateReq, r)
  /\ gateReq' = [gateReq EXCEPT ![r] = Entered(route, cookie)]
  /\ UNCHANGED <<authVars, hookVars, resp>>

\* the session survives the sign-out
destroySessionKeeps(cookie) == cookie

\* sessionStorage.destroySession(session): the Set-Cookie header carries an
\* empty value that has expired, the client is left without the cookie
destroySession(cookie) == <<>>

\* session.server.ts 37-44 (logout, the loader of logout.tsx and the action
\* of part_007) and auth.server.ts 154-157 (signOut, which returns the header
\* alone)
SignOut(r, helper, cookie) ==
  /\ Free(gateReq, r)
  /\ gateReq' = [gateReq EXCEPT ![r] =
       [IdleGate EXCEPT !.pc = "done", !.route = helper, !.cookie = cookie,
                        !.day = today, !.at = now,
                        !.location = IF helper = "logout" THEN "/login" ELSE "",
                        !.setCookie = destroySession(cookie)]]
  /\ UNCHANGED <<authVars, hookVars, resp>>

\* the client's next request, made with what the sign-out response q left it
GateFollow(r, route, q) ==
  /\ Free(gateReq, r)
  /\ gateReq[q].pc = "done"
  /\ gateReq[q].route \in {"logout", "signOut"}
  /\ gateReq' = [gateReq EXCEPT ![r] =
       [Entered(route, gateReq[q].setCookie) EXCEPT !.follows = q]]
  /\ UNCHANGED <<authVars, hookVars, resp>>

\* the calendar advances to a later day
TickDay(d) ==
  /\ d > today
  /\ today' = d
  /\ UNCHANGED <<now, magicLinkToken, user, session, sendCall, verifyCall>>

\* dashboard._index.tsx 44-106: the four store reads, in program order
AfterQuery(pc) ==
  CASE pc = "tenants" -> "totals"
    [] pc = "totals" -> "series"
    [] pc = "series" -> "top"
    [] pc = "top" -> "respond"

DashQuery(r) ==
  /\ gateReq[r].pc \in {"tenants", "totals", "series", "top"}
  /\ gateReq' = [gateReq EXCEPT ![r].pc = AfterQuery(gateReq[r].pc),
                                ![r].queries = gateReq[r].queries + 1]
  /\ UNCHANGED <<authVars, hookVars, resp>>

\* dashboard._index.tsx 110-123
DashRespond(r) ==
  /\ gateReq[r].pc = "respond"
  /\ gateReq' = [gateReq EXCEPT ![r].pc = "done", ![r].body = "json"]
  /\ UNCHANGED <<authVars, hookVars, resp>>

-----------------------------------------------------------------------------
(* routes/webhooks.*.create.tsx and their earlier versions: the receivers *)

\* the versions of the three receivers found in the sources.  write is the
\* store call, connects tells whether prisma.$connect() is awaited first,
\* lowers whether the tenant is shop.toLowerCase(), surfaces whether a failed
\* write is answered with 500, unauthorized the status when
\* authenticate.webhook throws.
Handlers ==
  { \* webhooks.customers.create.tsx 5-72
    [name |-> "customers.upsert", table |-> "customers", write |-> "upsert",
     connects |-> TRUE, lowers |-> TRUE, surfaces |-> TRUE, unauthorized |-> 401],
    \* logout.tsx 12-78
    [name |-> "products.upsert", table |-> "products", write |-> "upsert",
     connects |-> TRUE, lowers |-> TRUE, surfaces |-> TRUE, unauthorized |-> 401],
    \* logout.tsx 84-135
    [name |-> "products.create", table |-> "products", write |-> "create",
     connects |-> TRUE, lowers |-> FALSE, surfaces |-> TRUE, unauthorized |-> 401],
    \* part_004 5-56
    [name |-> "orders.create", table |-> "orders", write |-> "create",
     connects |-> TRUE, lowers |-> FALSE, surfaces |-> TRUE, unauthorized |-> 401],
    \* logout.tsx 141-163
    [name |-> "products.quiet", table |-> "products", write |-> "create",
     connects |-> FALSE, lowers |-> FALSE, surfaces |-> FALSE, unauthorized |-> 401],
    \* webhooks.orders.create.tsx 5-28
    [name |-> "orders.quiet", table |-> "orders", write |-> "create",
     connects |-> FALSE, lowers |-> FALSE, surfaces |-> FALSE, unauthorized |-> 401],
    \* part_006 5-28
    [name |-> "customers.quiet", table |-> "customers", write |-> "create",
     connects |-> FALSE, lowers |-> FALSE, surfaces |-> FALSE, unauthorized |-> 401],
    \* part_005 5-31: the test insert, inside one try with the authentication
    [name |-> "products.test", table |-> "products", write |-> "create",
     connects |-> FALSE, lowers |-> FALSE, surfaces |-> FALSE, unauthorized |-> 200],
    \* webhooks.products.create.tsx 4-12
    [name |-> "products.log", table |-> "products", write |-> "none",
     connects |-> FALSE, lowers |-> FALSE, surfaces |-> FALSE, unauthorized |-> 401],
    \* part_005 35-45
    [name |-> "orders.log", table |-> "orders", write |-> "none",
     connects |-> FALSE, lowers |-> FALSE, surfaces |-> FALSE, unauthorized |-> 401],
    \* webhooks.customers.create.tsx 77-93
    [name |-> "customers.log", table |-> "customers", write |-> "none",
     connects |-> FALSE, lowers |-> FALSE, surfaces |-> FALSE, unauthorized |-> 500] }

Handler(name) == CHOOSE h \in Handlers : h.name = name

\* the shops and the platform ids of the payloads delivered: two shops whose
\* resources carry the same platform id
Shops == { <<"S">>, <<"b">> }

PlatformIds == { 1 }

\* const tenant = shop.toLowerCase() (webhooks.customers.create.tsx 41,
\* logout.tsx 49); tenant_id: shop in the other versions
TenantOf(h, shop) == IF h.lowers THEN ToLowerCase(shop) ELSE shop

\* String(payload.id); part_005 17 stores the literal "test-from-webhook"
ShopifyIdOf(h, id) == IF h.name = "products.test" THEN <<"test-from-webhook">> ELSE <<id>>

Table(t) ==
  CASE t = "orders" -> orders
    [] t = "customers" -> customers
    [] t = "products" -> products

\* where: { tenant_id_shopify_id: { tenant_id, shopify_id } }
FindByKey(t, tenant, sid) ==
  { r \in Table(t) : r.tenant_id = tenant /\ r.shopify_id = sid }

\* the schema is not among the sources.  It is taken to declare the pair
\* (tenant_id, shopify_id) unique on orders as it does on the two tables
\* whose upserts name the index.
OrdersUnique == TRUE

\* the compound unique index tenant_id_shopify_id that the upserts name
\* (webhooks.customers.create.tsx 45, logout.tsx 53)
UniqueKey(t) == t \in {"customers", "products"} \/ (t = "orders" /\ OrdersUnique)

\* no index rejects a second row of the same key
ConflictsNever(t, tenant, sid) == FALSE

\* an insert of the key violates the unique index
Conflicts(t, tenant, sid) == UniqueKey(t) /\ FindByKey(t, tenant, sid) # {}

\* the data of the create calls; the payload of a platform id is fixed, a
\* redelivery carries it again
NewRow(h, tenant, sid, id) ==
  CASE h.table = "orders" ->
         [id |-> nextRowId, tenant_id |-> tenant, shopify_id |-> sid,
          customer_id |-> <<id>>, total_price |-> 10 * id, created_at |-> now]
    [] h.table = "customers" ->
         [id |-> nextRowId, tenant_id |-> tenant, shopify_id |-> sid, email |-> <<"e", id>>]
    [] h.table = "products" ->
         [id |-> nextRowId, tenant_id |-> tenant, shopify_id |-> sid, price |-> 10 * id]

\* the update branch of the upserts: the payload's fields are written again
Updated(h, row, id) ==
  IF h.table = "customers" THEN [row EXCEPT !.email = <<"e", id>>]
                           ELSE [row EXCEPT !.price = 10 * id]

Store(t, rows) ==
  /\ orders' = IF t = "orders" THEN rows ELSE orders
  /\ customers' = IF t = "customers" THEN rows ELSE customers
  /\ products' = IF t = "products" THEN rows ELSE products

IdleDelivery ==
  [pc |-> "idle", handler |-> "", shop |-> <<>>, id |-> 0, found |-> {},
   status |-> 0, wrote |-> FALSE, failed |-> FALSE]

\* one version of a route is deployed at a time: the deliveries of a topic
\* all reach the same version
Deployed(h) ==
  \A e \in DOMAIN delivery :
    (delivery[e].pc # "idle" /\ Handler(delivery[e].handler).table = h.table)
      => delivery[e].handler = h.name

\* the status of a failed write: 500 where the catch returns it, 200 where
\* the catch only logs
FailureStatus(h) == IF h.surfaces THEN 500 ELSE 200

\* authenticate.webhook(request) and what follows without a store call
HookReceive(d, h, shop, id, authentic) ==
  /\ Free(delivery, d)
  /\ Deployed(h)
  /\ LET begun == [IdleDelivery EXCEPT !.handler = h.name, !.shop = shop, !.id = id]
     IN delivery' = [delivery EXCEPT ![d] =
          IF ~authentic THEN [begun EXCEPT !.pc = "done", !.status = h.unauthorized]
          ELSE IF h.write = "none" THEN [begun EXCEPT !.pc = "done", !.status = 200]
          ELSE IF h.connects THEN [begun EXCEPT !.pc = "connect"]
          ELSE [begun EXCEPT !.pc = "put"]]
  /\ UNCHANGED <<orders, customers, products, nextRowId>>

\* await prisma.$connect(): "DB connect error", 500 when it throws
HookConnect(d, ok) ==
  /\ delivery[d].pc = "connect"
  /\ LET h == Handler(delivery[d].handler)
     IN delivery' = [delivery EXCEPT ![d] =
          IF ~ok THEN [@ EXCEPT !.pc = "done", !.status = 500]
          ELSE [@ EXCEPT !.pc = IF h.write = "upsert" THEN "find" ELSE "put"]]
  /\ UNCHANGED <<orders, customers, products, nextRowId>>

\* prisma.<model>.upsert, its read: the row of the key, if any.  The upsert
\* is followed as a read and a write; a single-statement upsert is the case
\* in which no other write falls between the two.
HookFind(d, ok) ==
  /\ delivery[d].pc = "find"
  /\ LET c == delivery[d]
         h == Handler(c.handler)
     IN delivery' = [delivery EXCEPT ![d] =
          IF ~ok THEN [@ EXCEPT !.pc = "done", !.failed = TRUE, !.status = FailureStatus(h)]
          ELSE [@ EXCEPT !.pc = "put",
                         !.found = FindByKey(h.table, TenantOf(h, c.shop),
                                             ShopifyIdOf(h, c.id))]]
  /\ UNCHANGED <<orders, customers, products, nextRowId>>

\* prisma.<model>.create, or the write of the upsert, and the response
HookPut(d, ok) ==
  /\ delivery[d].pc = "put"
  /\ LET c == delivery[d]
         h == Handler(c.handler)
         tenant == TenantOf(h, c.shop)
         sid == ShopifyIdOf(h, c.id)
         rows == Table(h.table)
     IN IF ~ok \/ (c.found = {} /\ Conflicts(h.table, tenant, sid))
        THEN /\ delivery' = [delivery EXCEPT ![d].pc = "done", ![d].failed = TRUE,
                                             ![d].status = FailureStatus(h)]
             /\ UNCHANGED <<orders, customers, products, nextRowId>>
        ELSE IF c.found = {}
        THEN /\ Store(h.table, rows \cup { NewRow(h, tenant, sid, c.id) })
             /\ nextRowId' = nextRowId + 1
             /\ delivery' = [delivery EXCEPT ![d].pc = "done", ![d].wrote = TRUE,
                                             ![d].status = 200]
        ELSE /\ Store(h.table, { IF r \in c.found THEN Updated(h, r, c.id) ELSE r : r \in rows })
             /\ UNCHANGED nextRowId
             /\ delivery' = [delivery EXCEPT ![d].pc = "done", ![d].wrote = TRUE,
                                             ![d].status = 200]

-----------------------------------------------------------------------------
(* part_000 (utils/data.server.ts), dashboard._index.tsx, part_007: the
   aggregation behind the dashboards *)

\* a request parameter, or an argument, that was not given
Undefined == <<"undefined">>

\* the tenants of the rows in the store, and the calendar days in play
Tenants == { <<"b">>, <<"s">> }

Days == { 0, 1 }

DayMs == 24 * 60 * 60 * 1000

\* DATE(created_at), date_trunc('day', created_at)
DateOf(t) == t \div DayMs

\* new Date("YYYY-MM-DD"); setHours(0, 0, 0, 0) on a server that runs in UTC
StartOfDay(d) == d * DayMs

\* setHours(23, 59, 59, 999)
EndOfDay(d) == d * DayMs + (DayMs - 1)

\* UTF-16 code units, the order of Array.prototype.sort()
CodeUnit(c) ==
  CASE c = " " -> 32 [] c = "." -> 46 [] c = "@" -> 64
    [] c = "A" -> 65 [] c = "B" -> 66 [] c = "S" -> 83
    [] c = "a" -> 97 [] c = "b" -> 98 [] c = "s" -> 115
    [] c = "x" -> 120 [] c = "y" -> 121

RECURSIVE Before(_, _)
Before(s, t) ==
  IF s = <<>> THEN t # <<>>
  ELSE IF t = <<>> THEN FALSE
  ELSE IF Head(s) = Head(t) THEN Before(Tail(s), Tail(t))
  ELSE CodeUnit(Head(s)) < CodeUnit(Head(t))

\* SELECT DISTINCT tenant_id ... UNION ..., then .sort()
TenantList(O, C, P) ==
  LET ids == { r.tenant_id : r \in O \cup C \cup P }
  IN CHOOSE s \in [1 .. Cardinality(ids) -> ids] :
       /\ \A i, j \in DOMAIN s : i < j => Before(s[i], s[j])
       /\ { s[i] : i \in DOMAIN s } = ids

RECURSIVE SumPrice(_)
SumPrice(S) ==
  IF S = {} THEN 0
  ELSE LET o == CHOOSE x \in S : TRUE IN o.total_price + SumPrice(S \ {o})

\* where: { tenant_id: tenantId }: the client leaves a filter whose value is
\* undefined out of the query
WhereTenant(row, tenantId) == tenantId = Undefined \/ row.tenant_id = tenantId

\* tenant_id = ${tenantId} in a raw query: an undefined value is bound as
\* NULL, and no row satisfies tenant_id = NULL
SqlTenant(row, tenantId) == tenantId # Undefined /\ row.tenant_id = tenantId

\* created_at >= lo AND created_at <= hi
Between(o, lo, hi) == o.created_at >= lo /\ o.created_at <= hi

\* part_000 50-61, dashboard._index.tsx 72-86: one row for each day that has
\* orders
SeriesData(O, lo, hi, tenantId) ==
  LET rows == { o \in O : Between(o, lo, hi) /\ SqlTenant(o, tenantId) }
      OfDay(d) == { o \in rows : DateOf(o.created_at) = d }
  IN { [date |-> d, orders |-> Cardinality(OfDay(d)), revenue |-> SumPrice(OfDay(d))] :
         d \in { DateOf(o.created_at) : o \in rows } }

\* ORDER BY 1 of the series query
ByDate(seriesData) ==
  CHOOSE s \in [1 .. Cardinality(seriesData) -> seriesData] :
    /\ \A i, j \in DOMAIN s : i < j => s[i].date < s[j].date
    /\ { s[i] : i \in DOMAIN s } = seriesData

\* part_000 145-175
processSeriesData(seriesData, from, to) ==
  LET first == DateOf(from)
      n == IF from <= to THEN DateOf(to) - first + 1 ELSE 0
  IN [ i \in 1 .. n |->
         LET d == first + i - 1
             existingData == { s \in seriesData : s.date = d }
         IN IF existingData # {}
            THEN [date |-> d, orders |-> (CHOOSE s \in existingData : TRUE).orders,
                  revenue |-> (CHOOSE s \in existingData : TRUE).revenue]
            ELSE [date |-> d, orders |-> 0, revenue |-> 0] ]

\* part_000 64-78: JOIN "Order" o ON c.id = o.customer_id::integer, both
\* sides filtered by the tenant
TopCustomerRows(O, C, lo, hi, tenantId) ==
  LET OrdersOf(c) == { o \in O : /\ o.customer_id # <<>>
                                 /\ c.id = o.customer_id[1]
                                 /\ Between(o, lo, hi)
                                 /\ SqlTenant(o, tenantId) }
  IN { [id |-> c.id, email |-> c.email, spend |-> SumPrice(OrdersOf(c))] :
         c \in { x \in C : SqlTenant(x, tenantId) /\ OrdersOf(x) # {} } }

\* dashboard._index.tsx 88-106: orders LEFT JOIN customers ON c.tenant_id =
\* o.tenant_id AND c.shopify_id = o.customer_id, grouped by the customer
TopRows(O, C, lo, hi, tenantId) ==
  LET rows == { o \in O : SqlTenant(o, tenantId) /\ Between(o, lo, hi) }
      Match(o) == { c \in C : c.tenant_id = o.tenant_id /\ c.shopify_id = o.customer_id }
      Keys(o) == IF Match(o) = {} THEN { [customer_id |-> <<>>, email |-> <<>>] }
                 ELSE { [customer_id |-> c.shopify_id, email |-> c.email] : c \in Match(o) }
      keys == UNION { Keys(o) : o \in rows }
  IN { [customer_id |-> k.customer_id, email |-> k.email,
        spend |-> SumPrice({ o \in rows : k \in Keys(o) })] : k \in keys }

\* the LIMIT of both top-customer queries
TopLimit == 5

\* ORDER BY spend DESC LIMIT 5: every list the store may answer with; rows of
\* equal spend come in any order
TopLists(rows) ==
  LET n == IF Cardinality(rows) < TopLimit THEN Cardinality(rows) ELSE TopLimit
  IN { s \in [1 .. n -> rows] :
         /\ \A i, j \in 1 .. n : i < j => (s[i] # s[j] /\ s[i].spend >= s[j].spend)
         /\ \A r \in rows \ { s[i] : i \in 1 .. n } : \A i \in 1 .. n : s[i].spend >= r.spend }

\* the quotient without the test of the count
RatioUnguarded(revenue, count) == <<revenue, count>>

\* the quotient, kept as numerator and denominator
Ratio(revenue, count) == IF count > 0 THEN <<revenue, count>> ELSE <<0, 1>>

\* part_000 40-143 without the choice of the top list
getBusinessData(O, C, from, to, tenantId) ==
  LET fromDate == StartOfDay(from)
      toDate == EndOfDay(to)
      counted == { o \in O : Between(o, fromDate, toDate) /\ WhereTenant(o, tenantId) }
  IN [series |-> processSeriesData(SeriesData(O, fromDate, toDate, tenantId),
                                   fromDate, toDate),
      topRows |-> TopCustomerRows(O, C, fromDate, toDate, tenantId),
      totalCustomers |-> Cardinality({ c \in C : WhereTenant(c, tenantId) }),
      totalOrders |-> Cardinality(counted),
      totalRevenue |-> SumPrice(counted),
      avgOrderValue |-> Ratio(SumPrice(counted), Cardinality(counted))]

\* dashboard._index.tsx 52
SelectedTenant(O, C, P, tenant) ==
  IF tenant # Undefined THEN tenant
  ELSE IF TenantList(O, C, P) # <<>> THEN TenantList(O, C, P)[1]
  ELSE <<>>

\* dashboard._index.tsx 52-120: every query is skipped when selectedTenant is
\* the empty string
DashboardData(O, C, from, to, selectedTenant) ==
  LET fromStart == StartOfDay(from)
      toEnd == EndOfDay(to)
      chosen == selectedTenant # <<>>
      counted == IF chosen
                 THEN { o \in O : o.tenant_id = selectedTenant /\ Between(o, fromStart, toEnd) }
                 ELSE {}
  IN [series |-> IF chosen THEN ByDate(SeriesData(O, fromStart, toEnd, selectedTenant))
                 ELSE <<>>,
      topRows |-> IF chosen THEN TopRows(O, C, fromStart, toEnd, selectedTenant) ELSE {},
      totalCustomers |-> IF chosen
                         THEN Cardinality({ c \in C : c.tenant_id = selectedTenant })
                         ELSE 0,
      totalOrders |-> Cardinality(counted),
      totalRevenue |-> SumPrice(counted),
      avgOrderValue |-> Ratio(SumPrice(counted), Cardinality(counted))]

\* dashboard._index.tsx 655-740, the second loader of the file: from and to
\* are new Date("YYYY-MM-DD"), midnight of the day, and go into the queries as
\* they are
EarlierDashboardData(O, C, from, to, selectedTenant) ==
  LET lo == StartOfDay(from)
      hi == StartOfDay(to)
      chosen == selectedTenant # <<>>
      counted == IF chosen
                 THEN { o \in O : o.tenant_id = selectedTenant /\ Between(o, lo, hi) }
                 ELSE {}
  IN [series |-> IF chosen THEN ByDate(SeriesData(O, lo, hi, selectedTenant)) ELSE <<>>,
      topRows |-> IF chosen THEN TopRows(O, C, lo, hi, selectedTenant) ELSE {},
      totalCustomers |-> IF chosen
                         THEN Cardinality({ c \in C : c.tenant_id = selectedTenant })
                         ELSE 0,
      totalOrders |-> Cardinality(counted),
      totalRevenue |-> SumPrice(counted),
      avgOrderValue |-> Ratio(SumPrice(counted), Cardinality(counted))]

NoResponse == [status |-> 0]

\* a call of getBusinessData(from, to, tenantId) by a caller that names the
\* tenant; a failing store makes it throw
BusinessData(tenantId, from, to, fails) ==
  /\ resp' \in IF fails THEN { [status |-> 500, loader |-> "getBusinessData"] }
               ELSE LET data == getBusinessData(orders, customers, from, to, tenantId)
                    IN { [status |-> 200, loader |-> "getBusinessData", tenant |-> tenantId,
                          from |-> from, to |-> to, data |-> data, top |-> s] :
                           s \in TopLists(data.topRows) }
  /\ UNCHANGED <<authVars, gateReq, hookVars>>

\* part_007 81-108: getBusinessData(from, to), no tenant is passed
AnalyticsLoader(cookie, from, to, fails) ==
  /\ resp' \in IF SessionGet(cookie, "userEmail") = {}
               THEN { [status |-> 302, loader |-> "part_007", location |-> "/login"] }
               ELSE IF fails THEN { [status |-> 500, loader |-> "part_007"] }
               ELSE LET data == getBusinessData(orders, customers, from, to, Undefined)
                    IN { [status |-> 200, loader |-> "part_007", tenant |-> Undefined,
                          from |-> from, to |-> to, data |-> data, top |-> s] :
                           s \in TopLists(data.topRows) }
  /\ UNCHANGED <<authVars, gateReq, hookVars>>

\* dashboard._index.tsx 27-124 in one step, the store being at rest
DashboardLoader(cookie, tenant, from, to) ==
  /\ resp' \in IF Redirects(cookie, "userEmail")
               THEN { [status |-> 302, loader |-> "dashboard", location |-> "/login"] }
               ELSE LET selectedTenant == SelectedTenant(orders, customers, products, tenant)
                        data == DashboardData(orders, customers, from, to, selectedTenant)
                    IN { [status |-> 200, loader |-> "dashboard", param |-> tenant,
                          tenant |-> selectedTenant,
                          tenants |-> TenantList(orders, customers, products),
                          from |-> from, to |-> to, data |-> data, top |-> s] :
                           s \in TopLists(data.topRows) }
  /\ UNCHANGED <<authVars, gateReq, hookVars>>

\* dashboard._index.tsx 655-740 in one step, the store being at rest
EarlierDashboardLoader(cookie, tenant, from, to) ==
  /\ resp' \in IF Redirects(cookie, "userEmail")
               THEN { [status |-> 302, loader |-> "dashboard.earlier", location |-> "/login"] }
               ELSE LET selectedTenant == SelectedTenant(orders, customers, products, tenant)
                        data == EarlierDashboardData(orders, customers, from, to,
                                                     selectedTenant)
                    IN { [status |-> 200, loader |-> "dashboard.earlier", param |-> tenant,
                          tenant |-> selectedTenant,
                          tenants |-> TenantList(orders, customers, products),
                          from |-> from, to |-> to, data |-> data, top |-> s] :
                           s \in TopLists(data.topRows) }
  /\ UNCHANGED <<authVars, gateReq, hookVars>>

\* the stores the dashboards are asked about: up to MaxOrders orders and
\* MaxCustomers customers of two tenants whose customers carry the same
\* platform id; the pair (tenant_id, shopify_id) is unique in each table
OrderRow(k, tenant, customer, day) ==
  [id |-> k, tenant_id |-> tenant, shopify_id |-> <<k>>, customer_id |-> customer,
   total_price |-> 10 * k, created_at |-> StartOfDay(day) + DayMs \div 2]

CustomerRow(k, tenant) ==
  [id |-> k, tenant_id |-> tenant, shopify_id |-> <<1>>, email |-> <<"e", k>>]

OrderStores ==
  { { OrderRow(k, f[k][1], f[k][2], f[k][3]) : k \in { i \in 1 .. MaxOrders : f[i] # <<>> } } :
      f \in [1 .. MaxOrders -> {<<>>} \cup (Tenants \X {<<>>, <<1>>} \X Days)] }

CustomerStores ==
  { S \in { { CustomerRow(k, f[k]) : k \in { i \in 1 .. MaxCustomers : f[i] # <<>> } } :
              f \in [1 .. MaxCustomers -> {<<>>} \cup Tenants] } :
      \A c1, c2 \in S : c1.tenant_id = c2.tenant_id => c1 = c2 }

\* the stores the rankings are asked about: MaxRanked customers of one tenant,
\* each with one order of day 0 whose price is one of two, so that spends tie
\* and more customers qualify than the list holds
RankedCustomers ==
  { [id |-> k, tenant_id |-> <<"b">>, shopify_id |-> <<k>>, email |-> <<"e", k>>] :
      k \in 1 .. MaxRanked }

Prices == { 10, 20 }

RankedOrderStores ==
  { { [id |-> k, tenant_id |-> <<"b">>, shopify_id |-> <<k>>, customer_id |-> <<k>>,
       total_price |-> f[k], created_at |-> StartOfDay(0) + DayMs \div 2] :
        k \in 1 .. MaxRanked } :
      f \in [1 .. MaxRanked -> Prices] }

\* the stores the ranges are asked about: up to MaxOrders orders of tenant b,
\* created at the first, the middle or the last millisecond of a day, with or
\* without the one customer
Instants(d) == { StartOfDay(d), StartOfDay(d) + DayMs \div 2, EndOfDay(d) }

TimedOrderStores ==
  { { [id |-> k, tenant_id |-> <<"b">>, shopify_id |-> <<k>>, customer_id |-> f[k][1],
       total_price |-> 10 * k, created_at |-> f[k][2]] :
        k \in { i \in 1 .. MaxOrders : f[i] # <<>> } } :
      f \in [1 .. MaxOrders ->
              {<<>>} \cup ({<<>>, <<1>>} \X UNION { Instants(d) : d \in Days })] }

\* the session cookies of the requests: none, and one of a signed-in user
AggCookies == { <<>>, createUserSession(<<"a", "@", "x", ".", "y">>) }

-----------------------------------------------------------------------------
(* part_000 (utils/tenant.server.ts), login.tsx: the tenant of a request *)

\* String.prototype.split(ch): the pieces between the occurrences of ch
RECURSIVE SplitOn(_, _)
SplitOn(s, ch) ==
  IF \A i \in DOMAIN s : s[i] # ch THEN <<s>>
  ELSE LET k == CHOOSE i \in DOMAIN s : s[i] = ch /\ \A j \in 1 .. i - 1 : s[j] # ch
       IN <<SubSeq(s, 1, k - 1)>> \o SplitOn(SubSeq(s, k + 1, Len(s)), ch)

\* const [key, value] = c.trim().split('='): the first two pieces, the
\* second undefined when there is no "="
KeyValue(c) ==
  LET parts == SplitOn(Trim(c), "=")
  IN <<parts[1], IF Len(parts) >= 2 THEN parts[2] ELSE Undefined>>

\* new Map(entries).get(key): the last entry of the key
MapGet(entries, key) ==
  LET at == { i \in DOMAIN entries : entries[i][1] = key }
  IN IF at = {} THEN Undefined
     ELSE entries[CHOOSE i \in at : \A j \in at : j <= i][2]

TenantCookie == <<"t", "e", "n", "a", "n", "t", "_", "i", "d">>

\* part_000 181-198: the cookie of the request, or a thrown error; a request
\* without a Cookie header has cookieHeader = null
getTenantId(hasHeader, cookieHeader) ==
  LET pieces == SplitOn(cookieHeader, ";")
      cookies == IF hasHeader THEN [i \in DOMAIN pieces |-> KeyValue(pieces[i])] ELSE <<>>
      tenantId == MapGet(cookies, TenantCookie)
  IN IF tenantId = Undefined \/ tenantId = <<>>
     THEN [thrown |-> TRUE, tenantId |-> Undefined]
     ELSE [thrown |-> FALSE, tenantId |-> tenantId]

\* the Cookie header a client sends for the cookies it holds
RECURSIVE CookieHeader(_)
CookieHeader(held) ==
  IF held = <<>> THEN <<>>
  ELSE held[1][1] \o <<"=">> \o held[1][2]
       \o (IF Len(held) > 1 THEN <<";", " ">> \o CookieHeader(Tail(held)) ELSE <<>>)

\* the values of the cookies: up to MaxValue characters; "=" is a character
\* of a cookie value
RECURSIVE Words(_, _)
Words(alphabet, n) ==
  IF n = 0 THEN { <<>> }
  ELSE Words(alphabet, n - 1)
         \cup { w \o <<c>> : w \in Words(alphabet, n - 1), c \in alphabet }

CookieValues == Words({"a", "="}, MaxValue)

CookieNames == { TenantCookie, <<"s", "i", "d">> }

\* what a client may hold: up to two cookies of different names
HeldCookies ==
  LET Named(held) == { held[i][1] : i \in DOMAIN held }
      AllHeld == { <<>> }
                   \cup { <<<<n, v>>>> : n \in CookieNames, v \in CookieValues }
                   \cup { <<<<n1, v1>>, <<n2, v2>>>> :
                            n1 \in CookieNames, n2 \in CookieNames,
                            v1 \in CookieValues, v2 \in CookieValues }
  IN { held \in AllHeld : Cardinality(Named(held)) = Len(held) }

\* a call of getTenantId(request)
ResolveTenant(hasHeader, held) ==
  /\ resp' = LET r == getTenantId(hasHeader, CookieHeader(held))
             IN [status |-> IF r.thrown THEN 500 ELSE 200, loader |-> "getTenantId",
                 hasHeader |-> hasHeader, held |-> held, tenantId |-> r.tenantId]
  /\ UNCHANGED <<authVars, gateReq, hookVars>>

\* the store ids a form may post
StoreIds == Words({"a", "=", ";"}, MaxValue)

\* login.tsx 39-53: no store id gives 400; otherwise the cookie is set to the
\* posted value as it is
SelectStore(storeId) ==
  /\ resp' = IF storeId = <<>>
             THEN [status |-> 400, loader |-> "login.action", storeId |-> storeId]
             ELSE [status |-> 302, loader |-> "login.action", storeId |-> storeId,
                   location |-> "/dashboard",
                   setCookie |-> TenantCookie \o <<"=">> \o storeId
                                   \o <<";", " ">> \o <<"P", "a", "t", "h", "=", "/">>]
  /\ UNCHANGED <<authVars, gateReq, hookVars>>

\* the client keeps the name and the value of a Set-Cookie header: what
\* precedes the first ";", split at its first "="
Kept(setCookie) ==
  LET pair == Trim(SplitOn(setCookie, ";")[1])
      name == SplitOn(pair, "=")[1]
  IN <<name, Trim(SubSeq(pair, Len(name) + 2, Len(pair)))>>

\* the request that follows the redirect of the store selection
ResolveSelected ==
  /\ resp.status = 302
  /\ resp.loader = "login.action"
  /\ resp' = LET held == <<Kept(resp.setCookie)>>
                 r == getTenantId(TRUE, CookieHeader(held))
             IN [status |-> IF r.thrown THEN 500 ELSE 200, loader |-> "getTenantId",
                 hasHeader |-> TRUE, held |-> held, tenantId |-> r.tenantId]
  /\ UNCHANGED <<authVars, gateReq, hookVars>>

-----------------------------------------------------------------------------
(* login.tsx 13-37, dashboard._index.tsx 27-28: a client that follows the
   redirects *)

\* login.tsx 15-25: the loader parses the Cookie header as getTenantId does
\* and tests cookies.get('tenant_id')
LoginReadsTenant(held) == ~getTenantId(TRUE, CookieHeader(held)).thrown

\* the response of the loader of a page to a client that holds a session
\* cookie and the cookies of held: /login redirects to /dashboard when it
\* reads a tenant_id cookie, /dashboard redirects to /login without userEmail.
\* selected is LoginReadsTenant(held), kept with the client's cookies.
PageResponse(page, cookie, held, selected) ==
  [status |-> IF page = "/login"
              THEN (IF selected THEN 302 ELSE 200)
              ELSE (IF Redirects(cookie, GateKey("dashboard")) THEN 302 ELSE 200),
   loader |-> IF page = "/login" THEN "login" ELSE "dashboard.gate",
   location |-> IF page = "/login"
                THEN (IF selected THEN "/dashboard" ELSE "")
                ELSE (IF Redirects(cookie, GateKey("dashboard")) THEN "/login" ELSE ""),
   cookie |-> cookie, held |-> held, selected |-> selected]

\* the session cookies of the clients: none, one of createUserSession and one
\* of createLoginSession
ClientSessions == { <<>>, createUserSession(<<"a", "@", "x", ".", "y">>), "userId" :> 1 }

\* the client requests a page
Visit(page, cookie, held) ==
  /\ resp' = PageResponse(page, cookie, held, LoginReadsTenant(held))
  /\ UNCHANGED <<authVars, gateReq, hookVars>>

\* the client follows the redirect with the cookies it holds: neither
\* redirect sets or clears a cookie
FollowRedirect ==
  /\ resp.status = 302
  /\ resp.loader \in {"login", "dashboard.gate"}
  /\ resp' = PageResponse(resp.location, resp.cookie, resp.held, resp.selected)
  /\ UNCHANGED <<authVars, gateReq, hookVars>>

-----------------------------------------------------------------------------
(* mailer.server.ts, auth.server.ts 47-65 and 86-99: the mail of a link *)

\* encodeURIComponent, URLSearchParams: "@" is written %40, the other
\* characters of the model stay
RECURSIVE EncodeURIComponent(_)
EncodeURIComponent(s) ==
  IF s = <<>> THEN <<>>
  ELSE (IF Head(s) = "@" THEN <<"%", "4", "0">> ELSE <<Head(s)>>)
         \o EncodeURIComponent(Tail(s))

\* replace(/\/+$/, ""): drop the trailing slashes
RECURSIVE DropSlashes(_)
DropSlashes(s) ==
  IF s # <<>> /\ s[Len(s)] = "/" THEN DropSlashes(SubSeq(s, 1, Len(s) - 1)) ELSE s

\* mailer.server.ts 13-14
MailerLink(urlBase, token, email) ==
  DropSlashes(urlBase) \o <<"/", "l", "o", "g", "i", "n", "/", "v", "e", "r", "i", "f", "y">> \o <<"?", "t", "o", "k", "e", "n", "=">>
    \o EncodeURIComponent(token) \o <<"&", "e", "m", "a", "i", "l", "=">> \o EncodeURIComponent(email)

\* auth.server.ts 86-88
AuthLink(appUrl, token, email) ==
  DropSlashes(appUrl) \o <<"/", "a", "u", "t", "h", "/", "v", "e", "r", "i", "f", "y">> \o <<"?", "t", "o", "k", "e", "n", "=">>
    \o EncodeURIComponent(token) \o <<"&", "e", "m", "a", "i", "l", "=">> \o EncodeURIComponent(email)

\* what the provider does with a send: it accepts it, answers with an error,
\* or cannot be reached
Outcomes == { "accepted", "rejected", "unreachable" }

\* mailer.server.ts 7-35: the link is logged first; without a key the function
\* is done; an error of the send is caught and logged
MailerSendMagicLink(email, token, baseUrl, resendKey, outcome) ==
  LET link == MailerLink(baseUrl, token, email)
  IN [thrown |-> FALSE,
      log |-> <<[level |-> "log", text |-> link]>>
                \o (IF ~resendKey THEN <<>>
                    ELSE IF outcome = "unreachable"
                    THEN <<[level |-> "error", text |-> <<"R", "e", "s", "e", "n", "d", " ", "e", "r", "r", "o", "r">>]>>
                    ELSE <<[level |-> "log", text |-> <<"s", "e", "n", "t", " ", "i", "d">>]>>),
      sends |-> IF resendKey THEN 1 ELSE 0]

\* auth.server.ts 47-65: with a key, one POST, and an error unless it is
\* answered with success; without a key the text goes to the log
sendEmail(text, resendKey, outcome) ==
  IF resendKey
  THEN [thrown |-> outcome # "accepted", log |-> <<>>, sends |-> 1]
  ELSE [thrown |-> FALSE,
        log |-> <<[level |-> "warn", text |-> <<"N", "o", " ", "p", "r", "o", "v", "i", "d", "e", "r">>],
                  [level |-> "log", text |-> text]>>,
        sends |-> 0]

\* auth.server.ts 86-99: the mail of sendMagicLink
AuthSendMail(email, token, appUrl, resendKey, devLog, outcome) ==
  LET url == AuthLink(appUrl, token, email)
      sent == sendEmail(<<"C", "l", "i", "c", "k", ":", " ">> \o url, resendKey, outcome)
  IN [thrown |-> sent.thrown,
      log |-> (IF devLog THEN <<[level |-> "log", text |-> <<"D", "E", "V", ":", " ">> \o url]>> ELSE <<>>)
                \o sent.log,
      sends |-> sent.sends]

\* raw tokens and addresses of the mails, and the origins of the deployment
MailTokens == { <<"c", "4">>, <<"4", "c">> }

MailEmails == { <<"a", "@", "x", ".", "y">>, <<"b", "@", "x", ".", "y">> }

BaseUrls == { <<"h">>, <<"h", "/">> }

\* a call of the mailer
MailerSend(email, token, baseUrl, resendKey, outcome) ==
  /\ resp' = LET r == MailerSendMagicLink(email, token, baseUrl, resendKey, outcome)
             IN [status |-> IF r.thrown THEN 500 ELSE 200, loader |-> "mailer",
                 email |-> email, base |-> baseUrl, token |-> token, resendKey |-> resendKey, devLog |-> FALSE,
                 outcome |-> outcome, log |-> r.log, sends |-> r.sends]
  /\ UNCHANGED <<authVars, gateReq, hookVars>>

\* the mail of a call of sendMagicLink
AuthMail(email, token, appUrl, resendKey, devLog, outcome) ==
  /\ resp' = LET r == AuthSendMail(email, token, appUrl, resendKey, devLog, outcome)
             IN [status |-> IF r.thrown THEN 500 ELSE 200, loader |-> "sendEmail",
                 email |-> email, base |-> appUrl, token |-> token, resendKey |-> resendKey, devLog |-> devLog,
                 outcome |-> outcome, log |-> r.log, sends |-> r.sends]
  /\ UNCHANGED <<authVars, gateReq, hookVars>>

-----------------------------------------------------------------------------
(* Specifications *)

Init ==
  /\ today = 0
  /\ now = 0
  /\ magicLinkToken = {}
  /\ user = {}
  /\ session = {}
  /\ sendCall = [s \in 1 .. MaxCalls |-> IdleSend]
  /\ verifyCall = [v \in 1 .. MaxCalls |-> IdleVerify]
  /\ gateReq = [r \in 1 .. MaxCalls |-> IdleGate]
  /\ orders = {}
  /\ customers = {}
  /\ products = {}
  /\ nextRowId = 1
  /\ delivery = [d \in 1 .. MaxDeliveries |-> IdleDelivery]
  /\ resp = NoResponse

\* issue and verify: links are issued, the clock runs past the expiry, and
\* verification requests race
Next ==
  \/ \E t \in Around(LinkTtlMs) : Tick(t) /\ UNCHANGED <<today, gateReq, hookVars, resp>>
  \/ \E s \in 1 .. MaxCalls, raw \in IssueEmails, accepted \in BOOLEAN :
        /\ Started(sendCall) + Started(verifyCall) < MaxCalls
        /\ Issue(s, raw, accepted)
        /\ UNCHANGED <<today, gateReq, hookVars, resp>>
  \/ \E v \in 1 .. MaxCalls, t \in LinkTokens, e \in LinkEmails :
        /\ Started(sendCall) + Started(verifyCall) < MaxCalls
        /\ VerifyStart(v, t, e, "userId")
        /\ UNCHANGED <<today, gateReq, hookVars, resp>>
  \/ \E v \in 1 .. MaxCalls : VerifyCheck(v) /\ UNCHANGED <<today, gateReq, hookVars, resp>>
  \/ \E v \in 1 .. MaxCalls : VerifyFindUser(v) /\ UNCHANGED <<today, gateReq, hookVars, resp>>
  \/ \E v \in 1 .. MaxCalls : VerifyUser(v) /\ UNCHANGED <<today, gateReq, hookVars, resp>>
  \/ \E v \in 1 .. MaxCalls : VerifySession(v) /\ UNCHANGED <<today, gateReq, hookVars, resp>>

Spec == Init /\ [][Next]_vars

\* no sendMagicLink call is in progress
Quiet == \A q \in DOMAIN sendCall : sendCall[q].pc \in {"idle", "done"}

\* issuance alone: requests for links arrive one after another, around the
\* 30 s window
NextIssue ==
  \/ \E t \in Around(RateLimitMs - 1) : Tick(t) /\ UNCHANGED <<today, gateReq, hookVars, resp>>
  \/ \E s \in 1 .. MaxSend, raw \in RawEmails :
        Quiet /\ SendStart(s, raw) /\ UNCHANGED <<today, gateReq, hookVars, resp>>
  \/ \E s \in 1 .. MaxSend : SendCreate(s) /\ UNCHANGED <<today, gateReq, hookVars, resp>>
  \/ \E s \in 1 .. MaxSend, accepted \in BOOLEAN :
        SendMail(s, accepted) /\ UNCHANGED <<today, gateReq, hookVars, resp>>

SpecIssue == Init /\ [][NextIssue]_vars

\* issuance under concurrency: a request for a link may arrive while others
\* are between their look for a recent token and their create
NextRace ==
  \/ \E t \in Around(RateLimitMs - 1) : Tick(t) /\ UNCHANGED <<today, gateReq, hookVars, resp>>
  \/ \E s \in 1 .. MaxSend, raw \in RawEmails :
        SendStart(s, raw) /\ UNCHANGED <<today, gateReq, hookVars, resp>>
  \/ \E s \in 1 .. MaxSend : SendCreate(s) /\ UNCHANGED <<today, gateReq, hookVars, resp>>
  \/ \E s \in 1 .. MaxSend, accepted \in BOOLEAN :
        SendMail(s, accepted) /\ UNCHANGED <<today, gateReq, hookVars, resp>>

SpecRace == Init /\ [][NextRace]_vars

\* the users: links of one address, verified under that address in either
\* letter case and under another address; the steps of the verifications
\* interleave, and a second link needs the window to pass
UserLinkEmails == LinkEmails \cup { <<"a", "@", "x", ".", "y">> }

\* the requests for links and the verifications together are bounded
Logins == Started(sendCall) + Started(verifyCall) <= MaxCalls

NextUsers ==
  \/ now = 0 /\ Tick(RateLimitMs + 1) /\ UNCHANGED <<today, gateReq, hookVars, resp>>
  \/ \E s \in 1 .. MaxCalls, raw \in IssueEmails :
        /\ Logins
        /\ Started(sendCall) < MaxSend
        /\ Issue(s, raw, TRUE)
        /\ UNCHANGED <<today, gateReq, hookVars, resp>>
  \/ \E v \in 1 .. MaxCalls, t \in LinkTokens \ {genToken}, e \in UserLinkEmails :
        /\ Logins
        /\ Started(verifyCall) < MaxSend
        /\ VerifyStart(v, t, e, "userId")
        /\ UNCHANGED <<today, gateReq, hookVars, resp>>
  \/ \E v \in 1 .. MaxCalls : VerifyCheck(v) /\ UNCHANGED <<today, gateReq, hookVars, resp>>
  \/ \E v \in 1 .. MaxCalls : VerifyFindUser(v) /\ UNCHANGED <<today, gateReq, hookVars, resp>>
  \/ \E v \in 1 .. MaxCalls : VerifyUser(v) /\ UNCHANGED <<today, gateReq, hookVars, resp>>
  \/ \E v \in 1 .. MaxCalls : VerifySession(v) /\ UNCHANGED <<today, gateReq, hookVars, resp>>

SpecUsers == Init /\ [][NextUsers]_vars

\* the sessions: the three loaders that verify a link, their steps
\* interleaved, asked with the mailed tokens, with one that never was and
\* with none
NextMint ==
  \/ \E s \in 1 .. MaxCalls, raw \in IssueEmails :
        /\ Started(sendCall) + Started(verifyCall) < MaxCalls
        /\ Issue(s, raw, TRUE)
        /\ UNCHANGED <<today, gateReq, hookVars, resp>>
  \/ \E v \in 1 .. MaxCalls, t \in LinkTokens \cup {<<>>}, e \in LinkEmails,
         mint \in {"userId", "userEmail", "portal"} :
        /\ Started(sendCall) + Started(verifyCall) < MaxCalls
        /\ VerifyStart(v, t, e, mint)
        /\ UNCHANGED <<today, gateReq, hookVars, resp>>
  \/ \E v \in 1 .. MaxCalls : VerifyCheck(v) /\ UNCHANGED <<today, gateReq, hookVars, resp>>
  \/ \E v \in 1 .. MaxCalls : VerifyFindUser(v) /\ UNCHANGED <<today, gateReq, hookVars, resp>>
  \/ \E v \in 1 .. MaxCalls : VerifyUser(v) /\ UNCHANGED <<today, gateReq, hookVars, resp>>
  \/ \E v \in 1 .. MaxCalls : VerifySession(v) /\ UNCHANGED <<today, gateReq, hookVars, resp>>

SpecMint == Init /\ [][NextMint]_vars

\* login, then requests to the gated routes: all requests together are bounded
Budget == Started(sendCall) + Started(verifyCall) + Started(gateReq) < MaxCalls

NextGate ==
  \/ \E s \in 1 .. MaxCalls, raw \in IssueEmails, accepted \in BOOLEAN :
        Budget /\ Issue(s, raw, accepted) /\ UNCHANGED <<today, gateReq, hookVars, resp>>
  \/ \E v \in 1 .. MaxCalls, t \in LinkTokens, e \in LinkEmails,
         mint \in {"userId", "userEmail"} :
        Budget /\ VerifyStart(v, t, e, mint) /\ UNCHANGED <<today, gateReq, hookVars, resp>>
  \/ \E v \in 1 .. MaxCalls : VerifyCheck(v) /\ UNCHANGED <<today, gateReq, hookVars, resp>>
  \/ \E v \in 1 .. MaxCalls : VerifyFindUser(v) /\ UNCHANGED <<today, gateReq, hookVars, resp>>
  \/ \E v \in 1 .. MaxCalls : VerifyUser(v) /\ UNCHANGED <<today, gateReq, hookVars, resp>>
  \/ \E v \in 1 .. MaxCalls : VerifySession(v) /\ UNCHANGED <<today, gateReq, hookVars, resp>>
  \/ \E r \in 1 .. MaxCalls, route \in {"dashboard", "portal"},
         cookie \in {<<>>} \cup MintedCookies :
        Budget /\ GateEnter(r, route, cookie)
  \/ \E r \in 1 .. MaxCalls : DashQuery(r)
  \/ \E r \in 1 .. MaxCalls : DashRespond(r)

SpecGate == Init /\ [][NextGate]_vars

\* no request of the client is in progress
Settled ==
  /\ \A v \in DOMAIN verifyCall : verifyCall[v].pc \in {"idle", "done"}
  /\ \A r \in DOMAIN gateReq : gateReq[r].pc \in {"idle", "done"}

\* the days on which requests are made after the login: the last day of the
\* session's 30 days and those that follow
LaterDays == { ttlDays + k : k \in 0 .. MaxOffset }

\* the login is one of the client's calls
Calling == Settled /\ Started(gateReq) < MaxCalls - 1

\* the life of a session: one client logs in on the first day, then makes
\* its requests one after another, signs out, comes back days later
NextSession ==
  \/ \E s \in 1 .. MaxCalls, raw \in IssueEmails :
        /\ today = 0 /\ Settled /\ Started(sendCall) = 0
        /\ Issue(s, raw, TRUE)
        /\ UNCHANGED <<today, gateReq, hookVars, resp>>
  \/ \E v \in 1 .. MaxCalls, t \in LinkTokens \ {genToken}, e \in LinkEmails,
         mint \in {"userId", "userEmail"} :
        /\ today = 0 /\ Settled /\ Started(verifyCall) = 0
        /\ VerifyStart(v, t, e, mint)
        /\ UNCHANGED <<today, gateReq, hookVars, resp>>
  \/ \E v \in 1 .. MaxCalls : VerifyCheck(v) /\ UNCHANGED <<today, gateReq, hookVars, resp>>
  \/ \E v \in 1 .. MaxCalls : VerifyFindUser(v) /\ UNCHANGED <<today, gateReq, hookVars, resp>>
  \/ \E v \in 1 .. MaxCalls : VerifyUser(v) /\ UNCHANGED <<today, gateReq, hookVars, resp>>
  \/ \E v \in 1 .. MaxCalls : VerifySession(v) /\ UNCHANGED <<today, gateReq, hookVars, resp>>
  \/ \E d \in LaterDays :
        Settled /\ TickDay(d) /\ UNCHANGED <<gateReq, hookVars, resp>>
  \/ \E r \in 1 .. MaxCalls, route \in {"dashboard", "portal"},
         cookie \in {<<>>} \cup MintedCookies :
        Calling /\ GateEnter(r, route, cookie)
  \/ \E r \in 1 .. MaxCalls, helper \in {"logout", "signOut"},
         cookie \in {<<>>} \cup MintedCookies :
        Calling /\ SignOut(r, helper, cookie)
  \/ \E r \in 1 .. MaxCalls, route \in {"dashboard", "portal"}, q \in 1 .. MaxCalls :
        Calling /\ GateFollow(r, route, q)
  \/ \E r \in 1 .. MaxCalls : DashQuery(r)
  \/ \E r \in 1 .. MaxCalls : DashRespond(r)

SpecSession == Init /\ [][NextSession]_vars

\* the receivers: deliveries and redeliveries arrive and overlap, the store
\* may fail at each call
NextHooks ==
  \/ \E d \in 1 .. MaxDeliveries, h \in Handlers, shop \in Shops, id \in PlatformIds,
         authentic \in BOOLEAN :
        HookReceive(d, h, shop, id, authentic) /\ UNCHANGED <<authVars, gateReq, resp>>
  \/ \E d \in 1 .. MaxDeliveries, ok \in BOOLEAN :
        HookConnect(d, ok) /\ UNCHANGED <<authVars, gateReq, resp>>
  \/ \E d \in 1 .. MaxDeliveries, ok \in BOOLEAN :
        HookFind(d, ok) /\ UNCHANGED <<authVars, gateReq, resp>>
  \/ \E d \in 1 .. MaxDeliveries, ok \in BOOLEAN :
        HookPut(d, ok) /\ UNCHANGED <<authVars, gateReq, resp>>

SpecHooks == Init /\ [][NextHooks]_vars

\* the dashboards: a store at rest, asked by the three aggregations
InitAgg ==
  /\ today = 0
  /\ now = 0
  /\ magicLinkToken = {}
  /\ user = {}
  /\ session = {}
  /\ sendCall = [s \in 1 .. MaxCalls |-> IdleSend]
  /\ verifyCall = [v \in 1 .. MaxCalls |-> IdleVerify]
  /\ gateReq = [r \in 1 .. MaxCalls |-> IdleGate]
  /\ orders \in OrderStores
  /\ customers \in CustomerStores
  /\ products = {}
  /\ nextRowId = 1
  /\ delivery = [d \in 1 .. MaxDeliveries |-> IdleDelivery]
  /\ resp = NoResponse

\* each store is asked one request
Unasked == resp = NoResponse

NextAgg ==
  \/ \E tenantId \in Tenants, from \in Days, to \in Days, fails \in BOOLEAN :
        Unasked /\ BusinessData(tenantId, from, to, fails)
  \/ \E cookie \in AggCookies, from \in Days, to \in Days, fails \in BOOLEAN :
        Unasked /\ AnalyticsLoader(cookie, from, to, fails)
  \/ \E cookie \in AggCookies, tenant \in Tenants \cup {Undefined}, from \in Days, to \in Days :
        Unasked /\ DashboardLoader(cookie, tenant, from, to)

SpecAgg == InitAgg /\ [][NextAgg]_vars

\* the rankings: a store at rest with more customers than the list holds
InitTop ==
  /\ today = 0
  /\ now = 0
  /\ magicLinkToken = {}
  /\ user = {}
  /\ session = {}
  /\ sendCall = [s \in 1 .. MaxCalls |-> IdleSend]
  /\ verifyCall = [v \in 1 .. MaxCalls |-> IdleVerify]
  /\ gateReq = [r \in 1 .. MaxCalls |-> IdleGate]
  /\ orders \in RankedOrderStores
  /\ customers = RankedCustomers
  /\ products = {}
  /\ nextRowId = 1
  /\ delivery = [d \in 1 .. MaxDeliveries |-> IdleDelivery]
  /\ resp = NoResponse

NextTop ==
  \/ \E from \in Days, to \in Days :
        Unasked /\ BusinessData(<<"b">>, from, to, FALSE)
  \/ \E cookie \in AggCookies \ {<<>>}, from \in Days, to \in Days :
        Unasked /\ DashboardLoader(cookie, <<"b">>, from, to)

SpecTop == InitTop /\ [][NextTop]_vars

\* the ranges: a store at rest whose orders lie on the boundaries of the days
InitRange ==
  /\ today = 0
  /\ now = 0
  /\ magicLinkToken = {}
  /\ user = {}
  /\ session = {}
  /\ sendCall = [s \in 1 .. MaxCalls |-> IdleSend]
  /\ verifyCall = [v \in 1 .. MaxCalls |-> IdleVerify]
  /\ gateReq = [r \in 1 .. MaxCalls |-> IdleGate]
  /\ orders \in TimedOrderStores
  /\ customers = { CustomerRow(1, <<"b">>) }
  /\ products = {}
  /\ nextRowId = 1
  /\ delivery = [d \in 1 .. MaxDeliveries |-> IdleDelivery]
  /\ resp = NoResponse

NextRange ==
  \/ \E from \in Days, to \in Days :
        Unasked /\ BusinessData(<<"b">>, from, to, FALSE)
  \/ \E cookie \in AggCookies \ {<<>>}, from \in Days, to \in Days :
        Unasked /\ DashboardLoader(cookie, <<"b">>, from, to)
  \/ \E cookie \in AggCookies \ {<<>>}, from \in Days, to \in Days :
        Unasked /\ EarlierDashboardLoader(cookie, <<"b">>, from, to)

SpecRange == InitRange /\ [][NextRange]_vars

\* the tenant of a request: getTenantId on the headers of the clients, and
\* after the store selection
NextTenant ==
  \/ \E hasHeader \in BOOLEAN, held \in HeldCookies :
        Unasked /\ (hasHeader \/ held = <<>>) /\ ResolveTenant(hasHeader, held)
  \/ \E storeId \in StoreIds : Unasked /\ SelectStore(storeId)
  \/ ResolveSelected

SpecTenant == Init /\ [][NextTenant]_vars

\* the redirects: a client visits /login or /dashboard and follows every
\* redirect it is given
NextFollow ==
  \/ \E page \in {"/login", "/dashboard"}, cookie \in ClientSessions, held \in HeldCookies :
        Unasked /\ Visit(page, cookie, held)
  \/ FollowRedirect

SpecFollow == Init /\ [][NextFollow]_vars /\ WF_vars(FollowRedirect)

\* the mails: each configuration of the deployment and each answer of the
\* provider
NextMail ==
  \/ \E email \in MailEmails, token \in MailTokens, baseUrl \in BaseUrls,
         resendKey \in BOOLEAN, outcome \in Outcomes :
        Unasked /\ MailerSend(email, token, baseUrl, resendKey, outcome)
  \/ \E email \in MailEmails, token \in MailTokens, appUrl \in BaseUrls,
         resendKey \in BOOLEAN, devLog \in BOOLEAN, outcome \in Outcomes :
        Unasked /\ AuthMail(email, token, appUrl, resendKey, devLog, outcome)

SpecMail == Init /\ [][NextMail]_vars

-----------------------------------------------------------------------------
(* Claims about verification *)

Calls == DOMAIN verifyCall

TokenRow(token) == FindToken(hashToken(token))

\* the same address when letter case is disregarded
SameAddress(a, b) == ToLowerCase(a) = ToLowerCase(b)

\* two addresses that differ even when letter case is disregarded
DiffersIgnoringCase(a, b) ==
  ~(Len(a) = Len(b) /\ \A i \in DOMAIN a : LowerChar(a[i]) = LowerChar(b[i]))

\* the record the request found was issued to the address the request names,
\* was not consumed and is not expired when the request is decided
Presentable(c) ==
  \E r \in c.rec :
    ~DiffersIgnoringCase(r.email, c.email) /\ r.consumedAt = <<>>

\* C1: a verification request that begins after verifyMagicLink has returned a
\* user id for the same token never consumes the token again and ends with the
\* invalid-link error, whatever e-mail it names and whenever it is made.
C1_ConsumedTokenStaysInvalid ==
  \A v \in Calls :
    verifyCall[v].afterSuccess =>
      /\ ~verifyCall[v].consumed
      /\ verifyCall[v].pc \in {"check", "done"}
      /\ verifyCall[v].pc = "done" =>
            /\ verifyCall[v].result = "invalid"
            /\ verifyCall[v].location = "/login?error=invalid_link"

\* a later request with the correct e-mail, before the expiry, was refused
C1_Witness ==
  \E v \in Calls :
    /\ verifyCall[v].afterSuccess
    /\ verifyCall[v].pc = "done"
    /\ verifyCall[v].result = "invalid"
    /\ \E r \in verifyCall[v].rec :
          ~DiffersIgnoringCase(r.email, verifyCall[v].email) /\ r.expiresAt >= now

\* C2: of the verification requests that present one token, at most one gets a
\* user id, and the token is consumed at most once.
C2_AtMostOneSuccess ==
  \A v, w \in Calls :
    (v # w /\ verifyCall[v].token = verifyCall[w].token) =>
      /\ ~(Returned(verifyCall[v]) /\ Returned(verifyCall[w]))
      /\ ~(verifyCall[v].consumed /\ verifyCall[w].consumed)

\* C3: a verification request made more than 15 minutes after the token row
\* was created does not consume the token and ends with the invalid-link error.
C3_ExpiredLinkRejected ==
  \A v \in Calls :
    (\E r \in verifyCall[v].rec : verifyCall[v].t0 > r.createdAt + LinkTtlMs) =>
      /\ ~verifyCall[v].consumed
      /\ verifyCall[v].pc = "done" => verifyCall[v].result = "invalid"

\* an unconsumed link presented with its own e-mail, too late, was refused and
\* its row is still unconsumed
C3_Witness ==
  \E v \in Calls :
    /\ verifyCall[v].pc = "done"
    /\ verifyCall[v].result = "invalid"
    /\ Presentable(verifyCall[v])
    /\ \E r \in verifyCall[v].rec : verifyCall[v].t0 > r.createdAt + LinkTtlMs
    /\ \A r \in TokenRow(verifyCall[v].token) : r.consumedAt = <<>>

\* C4: a verification request whose e-mail differs, letter case disregarded,
\* from the e-mail of the record found for its token does not consume the
\* token and ends with the invalid-link error.
C4_EmailBinding ==
  \A v \in Calls :
    (\E r \in verifyCall[v].rec : DiffersIgnoringCase(r.email, verifyCall[v].email)) =>
      /\ ~verifyCall[v].consumed
      /\ verifyCall[v].pc = "done" => verifyCall[v].result = "invalid"

\* a request with another e-mail was refused while the link was fresh, and the
\* rightful e-mail then used the same link
C4_Witness ==
  \E v, w \in Calls :
    /\ verifyCall[v].pc = "done"
    /\ verifyCall[v].result = "invalid"
    /\ \E r \in verifyCall[v].rec :
          /\ DiffersIgnoringCase(r.email, verifyCall[v].email)
          /\ r.consumedAt = <<>>
          /\ r.expiresAt >= now
    /\ verifyCall[w].token = verifyCall[v].token
    /\ Returned(verifyCall[w])

-----------------------------------------------------------------------------
(* Claims about the token records *)

\* the verifications that have failed on the record of a hash
FailedOn(tokenHash) ==
  { v \in Calls : /\ verifyCall[v].pc = "done"
                  /\ verifyCall[v].result = "invalid"
                  /\ verifyCall[v].rec # {}
                  /\ hashToken(verifyCall[v].token) = tokenHash }

\* C21: every failed verifyMagicLink call whose hashed token matches a record
\* increases the attempts counter of that record by exactly one, so that after
\* n such failures, however they interleave, the counter has grown by n; a
\* call whose hash matches no record changes no counter.
C21_AttemptsCountFailures ==
  \A r \in magicLinkToken : r.attempts = Cardinality(FailedOn(r.tokenHash))

\* C22: token records are permanent: no operation removes a MagicLinkToken
\* row, and once consumedAt of a row is set no later issuance or verification
\* clears it.
C22_TokenRecordsPermanent ==
  [][\A r \in magicLinkToken :
       \E kept \in magicLinkToken' :
         /\ kept.tokenHash = r.tokenHash
         /\ kept.email = r.email
         /\ r.consumedAt # <<>> => kept.consumedAt # <<>>]_vars

\* a consumed record on which a later verification has failed, next to a
\* record issued after it
C22_Witness ==
  \E r, later \in magicLinkToken :
    /\ r.consumedAt # <<>>
    /\ r.attempts > 0
    /\ later.createdAt > r.consumedAt[1]

-----------------------------------------------------------------------------
(* Claims about the minting of sessions *)

\* the verification of the request has succeeded: its record passed the
\* tests of the request, it was consumed, and the user returned is the user
\* of the address of the record
Verified(c) ==
  /\ Returned(c)
  /\ c.consumed
  /\ \E r \in c.rec : SameAddress(r.email, c.email)
  /\ \E u \in user : u.id = c.userId /\ \E r \in c.rec : u.email = r.email

\* the cookie of the request is the session of the user its verification
\* returned
MintedFor(c) ==
  IF c.mint = "userEmail"
  THEN \E u \in user : u.id = c.userId /\ c.cookie = ("userEmail" :> u.email)
  ELSE c.cookie = ("userId" :> c.userId)

\* C26: each minted session cookie and each persisted Session row was created
\* by a request whose token verification succeeded in that same request, for
\* the user that verification returned; no route mints a session without a
\* successful verification.
C26_SessionsFollowVerification ==
  /\ \A v \in Calls :
       verifyCall[v].cookie # <<>> => (Verified(verifyCall[v]) /\ MintedFor(verifyCall[v]))
  /\ \A s \in session :
       \E v \in Calls : /\ Verified(verifyCall[v])
                        /\ verifyCall[v].mint \in {"userId", "portal"}
                        /\ verifyCall[v].pc = "done"
                        /\ verifyCall[v].userId = s.userId

\* a request has been given a session and a Session row, another one, with
\* the same token, has failed and has none
C26_Witness ==
  \E v, w \in Calls :
    /\ verifyCall[v].cookie # <<>>
    /\ session # {}
    /\ verifyCall[w].pc = "done"
    /\ verifyCall[w].token = verifyCall[v].token
    /\ ~Returned(verifyCall[w])
    /\ verifyCall[w].cookie = <<>>

-----------------------------------------------------------------------------
(* Claims about the redirects *)

Redirected == resp.status = 302 /\ resp.loader \in {"login", "dashboard.gate"}

Rendered == resp.status = 200 /\ resp.loader \in {"login", "dashboard.gate"}

\* C25: for every combination of session cookie and tenant_id cookie, a
\* client that follows the redirects from /login or /dashboard reaches a
\* response that is no redirect after finitely many hops.
C25_RedirectsTerminate == Redirected ~> Rendered

\* the same, for the clients that are signed in to the dashboard or hold no
\* tenant_id cookie that /login reads
SignedInRedirectsTerminate ==
  (/\ Redirected
   /\ (~Redirects(resp.cookie, GateKey("dashboard")) \/ ~resp.selected)) ~> Rendered

-----------------------------------------------------------------------------
(* Claims about the mail *)

Mailed == resp.status # 0 /\ resp.loader \in {"mailer", "sendEmail"}

\* C23: whenever a mail provider is configured and the provider rejects the
\* send or errors on it, the issue operation reports the failure to its caller
\* and does not return success; the send is not tried again.
C23_FailedSendFails ==
  (Mailed /\ resp.resendKey /\ resp.outcome # "accepted") =>
    (resp.status = 500 /\ resp.sends = 1)

\* the same, for sendEmail alone
SendEmailFailureThrows ==
  (Mailed /\ resp.loader = "sendEmail" /\ resp.resendKey /\ resp.outcome # "accepted") =>
    (resp.status = 500 /\ resp.sends = 1)

\* the text holds the word
Contains(text, word) ==
  \E i \in 1 .. Len(text) - Len(word) + 1 : SubSeq(text, i, i + Len(word) - 1) = word

\* C24: when a mail provider is configured, issuing a link never writes the
\* URL of the link, which holds the raw token, to the log; the log is the
\* fallback of the deployments without a provider only.
C24_NoLinkInLog ==
  (Mailed /\ resp.resendKey) =>
    \A i \in DOMAIN resp.log : ~Contains(resp.log[i].text, resp.token)

\* the same, for sendEmail in a deployment that has not set DEV_LOG_MAGIC_LINK
SendEmailLogsOnlyAsFallback ==
  (Mailed /\ resp.loader = "sendEmail" /\ resp.resendKey /\ ~resp.devLog) =>
    \A i \in DOMAIN resp.log : ~Contains(resp.log[i].text, resp.token)

\* C27: also after concurrent sendMagicLink calls for one e-mail, no two
\* MagicLinkToken rows of the same e-mail were created within 30 seconds of
\* each other.
C27_RateLimitUnderConcurrency ==
  \A r1, r2 \in magicLinkToken :
    (r1 # r2 /\ r1.email = r2.email /\ r1.createdAt <= r2.createdAt) =>
      r2.createdAt - r1.createdAt >= RateLimitMs

\* C28: a sendMagicLink call that ends in an error (invalid e-mail, rate
\* limit, or failure of the send) inserts no MagicLinkToken row, so that it
\* does not cause a following request for the same e-mail to be refused.
C28_FailedIssuanceLeavesNoRow ==
  \A s \in DOMAIN sendCall :
    (sendCall[s].pc = "done" /\ sendCall[s].result # "ok") =>
      /\ TokenRow(sendCall[s].token) = {}
      /\ \A q \in DOMAIN sendCall :
           (/\ sendCall[q].pc = "done"
            /\ sendCall[q].result = "rate_limit"
            /\ sendCall[q].email = sendCall[s].email) =>
             \E r \in magicLinkToken :
               /\ r.email = sendCall[q].email
               /\ r.createdAt > sendCall[q].t0 - RateLimitMs
               /\ r.tokenHash # hashToken(sendCall[s].token)

\* the same, for the calls refused before their create
RefusedIssuanceLeavesNoRow ==
  \A s \in DOMAIN sendCall :
    (sendCall[s].pc = "done" /\ sendCall[s].result \in {"invalid_email", "rate_limit"}) =>
      TokenRow(sendCall[s].token) = {}

-----------------------------------------------------------------------------
(* Claims about the users *)

\* C19: there is at most one User row per lower-cased e-mail; a User row
\* exists only for an e-mail that has had a successful verification; and all
\* successful verifications of one e-mail, in any letter case, return the
\* same user id.
C19_OneUserPerEmail ==
  /\ \A u1, u2 \in user : SameAddress(u1.email, u2.email) => u1 = u2
  /\ \A u \in user :
       \E v \in Calls : Returned(verifyCall[v]) /\ SameAddress(verifyCall[v].email, u.email)
  /\ \A v, w \in Calls :
       (/\ Returned(verifyCall[v])
        /\ Returned(verifyCall[w])
        /\ SameAddress(verifyCall[v].email, verifyCall[w].email)) =>
         verifyCall[v].userId = verifyCall[w].userId

\* two verifications that name one address in different letter case have
\* both returned, and a second user exists
C19_Witness ==
  /\ \E v, w \in Calls :
       /\ Returned(verifyCall[v])
       /\ Returned(verifyCall[w])
       /\ verifyCall[v].email # verifyCall[w].email
       /\ SameAddress(verifyCall[v].email, verifyCall[w].email)
       /\ verifyCall[v].token # verifyCall[w].token
  /\ user # {}

\* C20: consuming the token and resolving the user are one unit of work: a
\* token has consumedAt set only if the verifyMagicLink call that set it
\* returned a user id; no failure leaves the token consumed while the caller
\* received an error.
C20_ConsumedOnlyOnSuccess ==
  \A v \in Calls :
    (verifyCall[v].pc = "done" /\ verifyCall[v].consumed) =>
      /\ Returned(verifyCall[v])
      /\ \E r \in TokenRow(verifyCall[v].token) : r.consumedAt # <<>>

\* C29: a verifyMagicLink call that fails leaves consumedAt of every token
\* unchanged and creates no User row and no Session; the only store change it
\* may make is the attempts counter of the matched record.
C29_FailedVerificationKeepsStore ==
  \A v \in Calls :
    (verifyCall[v].pc = "done" /\ verifyCall[v].result \in {"invalid", "error"}) =>
      /\ ~verifyCall[v].consumed
      /\ verifyCall[v].cookie = <<>>
      /\ verifyCall[v].userId = 0

\* the rows without their counters
WithoutAttempts(rows) == { [r EXCEPT !.attempts = 0] : r \in rows }

\* the same, for the calls that the test of the record rejects: the step that
\* rejects changes nothing but the counter of the record it read
RejectedVerificationKeepsStore ==
  [][\A v \in Calls :
       (verifyCall[v].pc # "done" /\ verifyCall[v].result' = "invalid") =>
         /\ user' = user
         /\ session' = session
         /\ WithoutAttempts(magicLinkToken') = WithoutAttempts(magicLinkToken)
         /\ \A r \in magicLinkToken' \ magicLinkToken : r.tokenHash = hashToken(verifyCall[v].token)]_vars

-----------------------------------------------------------------------------
(* Claims about the session gate *)

Requests == DOMAIN gateReq

\* C9: a dashboard or portal request whose cookie carries no identity for the
\* route's gate executes no store query, is answered with the redirect to
\* /login and carries no data.
C9_GateShortCircuits ==
  \A r \in Requests :
    ( /\ gateReq[r].pc # "idle"
      /\ GateKey(gateReq[r].route) \notin DOMAIN gateReq[r].cookie )
    => /\ gateReq[r].pc = "done"
       /\ gateReq[r].queries = 0
       /\ gateReq[r].location = "/login"
       /\ gateReq[r].body = "none"

\* a dashboard request was redirected although it carried a signed cookie:
\* the cookie holds no identity under the key the dashboard's gate reads
C9_Witness ==
  \E r \in Requests :
    /\ gateReq[r].pc = "done"
    /\ gateReq[r].route = "dashboard"
    /\ gateReq[r].cookie # <<>>
    /\ gateReq[r].location = "/login"
    /\ gateReq[r].queries = 0

\* C10: a dashboard request that carries the cookie set by the verify route
\* (login.verify.tsx 6-20, createLoginSession) is not redirected to /login.
C10_LoginReachesDashboard ==
  \A r \in Requests : \A v \in DOMAIN verifyCall :
    ( /\ verifyCall[v].mint = "userId"
      /\ verifyCall[v].cookie # <<>>
      /\ gateReq[r].route = "dashboard"
      /\ gateReq[r].cookie = verifyCall[v].cookie
      /\ gateReq[r].pc = "done" )
    => gateReq[r].location # "/login"

-----------------------------------------------------------------------------
(* Claims about the aggregation *)

\* the rows of one tenant
Only(rows, A) == { r \in rows : r.tenant_id = A }

\* the response at hand is what its request yields on the rows of tenant A
\* alone
ComputedFrom(A) ==
  LET O == Only(orders, A)
      C == Only(customers, A)
      data == IF resp.loader = "dashboard"
              THEN DashboardData(O, C, resp.from, resp.to, resp.tenant)
              ELSE getBusinessData(O, C, resp.from, resp.to, resp.tenant)
  IN /\ resp.data.series = data.series
     /\ resp.data.totalCustomers = data.totalCustomers
     /\ resp.data.totalOrders = data.totalOrders
     /\ resp.data.totalRevenue = data.totalRevenue
     /\ resp.top \in TopLists(data.topRows)

\* C6: every value an aggregation returns (daily series, top customers,
\* customer count, order count, revenue) is computed from the rows of a single
\* tenant, the one the request names when it names one; the rows of any other
\* tenant do not change it.
C6_TenantIsolation ==
  resp.status = 200 =>
    \E A \in Tenants : (resp.tenant \in Tenants => A = resp.tenant) /\ ComputedFrom(A)

\* the same, for the requests that name their tenant
NamedTenantIsolated ==
  (resp.status = 200 /\ resp.tenant \in Tenants) => ComputedFrom(resp.tenant)

-----------------------------------------------------------------------------
(* Claims about the daily series *)

\* the orders of tenant A that were created on calendar day d
DayOrders(A, d) == { o \in orders : o.tenant_id = A /\ DateOf(o.created_at) = d }

\* the series has one entry for each day of from .. to, in ascending order,
\* each with the count and the sum of that day's orders of tenant A
ZeroFilled(series, A, from, to) ==
  /\ DOMAIN series = 1 .. (to - from + 1)
  /\ \A i \in DOMAIN series :
       series[i] = [date |-> from + i - 1,
                    orders |-> Cardinality(DayOrders(A, from + i - 1)),
                    revenue |-> SumPrice(DayOrders(A, from + i - 1))]

\* C13: for every tenant and every range from <= to, the series an
\* aggregation returns has exactly one entry for each calendar day of the
\* inclusive range, ascending and without duplicates; a day without orders has
\* orders = 0 and revenue = 0, a day with orders has its count and its sum.
C13_ZeroFilledSeries ==
  (resp.status = 200 /\ resp.tenant \in Tenants /\ resp.from <= resp.to) =>
    ZeroFilled(resp.data.series, resp.tenant, resp.from, resp.to)

\* the same, for getBusinessData alone, which fills the missing days
BusinessSeriesZeroFilled ==
  (resp.status = 200 /\ resp.loader = "getBusinessData" /\ resp.from <= resp.to) =>
    ZeroFilled(resp.data.series, resp.tenant, resp.from, resp.to)

-----------------------------------------------------------------------------
(* Claims about the ranking *)

\* at most TopLimit entries, in descending order of spend
TopFiveDescending ==
  resp.status = 200 =>
    /\ Len(resp.top) <= TopLimit
    /\ \A i, j \in DOMAIN resp.top : i < j => resp.top[i].spend >= resp.top[j].spend

\* C14: the top-customer list has at most 5 entries, is in descending order of
\* in-range spend, and is deterministic: every call against the same store
\* contents returns the same customers in the same order, also when customers
\* tie at the cut-off.
C14_TopFiveDeterministic ==
  resp.status = 200 =>
    /\ Len(resp.top) <= TopLimit
    /\ \A i, j \in DOMAIN resp.top : i < j => resp.top[i].spend >= resp.top[j].spend
    /\ \A again \in TopLists(resp.data.topRows) : again = resp.top

-----------------------------------------------------------------------------
(* Claims about the average order value *)

\* the orders of tenant A created on the days from .. to
RangeOrders(A, from, to) ==
  { o \in orders : /\ o.tenant_id = A
                   /\ from <= DateOf(o.created_at)
                   /\ DateOf(o.created_at) <= to }

\* C15: for every tenant and range, avgOrderValue is 0 when the in-range order
\* count is 0 and the in-range revenue divided by the in-range order count
\* otherwise; its divisor is never zero.
C15_AverageOrderValue ==
  (resp.status = 200 /\ resp.tenant \in Tenants) =>
    LET inRange == RangeOrders(resp.tenant, resp.from, resp.to)
        avg == resp.data.avgOrderValue
    IN /\ avg[2] # 0
       /\ Cardinality(inRange) = 0 => avg[1] = 0
       /\ Cardinality(inRange) > 0 =>
            avg[1] * Cardinality(inRange) = SumPrice(inRange) * avg[2]

\* a tenant is asked about a range in which it has no order, while the store
\* holds orders
C15_Witness ==
  /\ resp.status = 200
  /\ resp.tenant \in Tenants
  /\ orders # {}
  /\ RangeOrders(resp.tenant, resp.from, resp.to) = {}
  /\ resp.data.avgOrderValue = <<0, 1>>

-----------------------------------------------------------------------------
(* Claims about the range *)

\* the orders of the range that belong to the customer of a row of the top
\* list: getBusinessData joins on the customer's id, the dashboards on its
\* platform id, and keep the orders without a customer in a row of their own
OrdersOfRow(row, inRange) ==
  IF resp.loader = "getBusinessData"
  THEN { o \in inRange : o.customer_id # <<>> /\ o.customer_id[1] = row.id }
  ELSE { o \in inRange : IF row.customer_id = <<>>
                         THEN \A c \in customers : c.shopify_id # o.customer_id
                         ELSE o.customer_id = row.customer_id }

\* every order created on a day of from .. to is in the count and the revenue
Counted(inRange) ==
  /\ resp.data.totalOrders = Cardinality(inRange)
  /\ resp.data.totalRevenue = SumPrice(inRange)

\* ... in the entry of its day in the series
InSeries(inRange) ==
  \A o \in inRange :
    \E i \in DOMAIN resp.data.series :
      /\ resp.data.series[i].date = DateOf(o.created_at)
      /\ resp.data.series[i].orders =
           Cardinality(DayOrders(resp.tenant, DateOf(o.created_at)))
      /\ resp.data.series[i].revenue =
           SumPrice(DayOrders(resp.tenant, DateOf(o.created_at)))

\* ... and in the spend of its customer
InTop(inRange) ==
  /\ \A i \in DOMAIN resp.top :
       resp.top[i].spend = SumPrice(OrdersOfRow(resp.top[i], inRange))
  /\ \A o \in inRange :
       (\E c \in customers : c.shopify_id = o.customer_id) =>
         \E i \in DOMAIN resp.top : o \in OrdersOfRow(resp.top[i], inRange)

\* C16: an order created at any instant of calendar day D, from 00:00:00.000
\* to 23:59:59.999, is counted in the order count, the revenue, the series and
\* the top customers of every range with from <= D <= to, also when
\* from = to = D.
C16_InclusiveRange ==
  (resp.status = 200 /\ resp.tenant \in Tenants) =>
    LET inRange == RangeOrders(resp.tenant, resp.from, resp.to)
    IN Counted(inRange) /\ InSeries(inRange) /\ InTop(inRange)

\* the same, for the loaders that move the end of the range to the end of
\* its day
NormalizedRangeInclusive ==
  (resp.status = 200 /\ resp.tenant \in Tenants /\ resp.loader # "dashboard.earlier") =>
    LET inRange == RangeOrders(resp.tenant, resp.from, resp.to)
    IN Counted(inRange) /\ InSeries(inRange) /\ InTop(inRange)

-----------------------------------------------------------------------------
(* Claims about the tenant of a request *)

\* the values of the tenant_id cookies the request carries
Carried ==
  { resp.held[i][2] : i \in { j \in DOMAIN resp.held : resp.held[j][1] = TenantCookie } }

\* C17: getTenantId(request) returns the value of the tenant_id cookie when
\* the request carries one, and fails with an error whenever the request has
\* no Cookie header or no tenant_id cookie; it never returns an empty or a
\* default tenant.
C17_TenantFromCookie ==
  (resp.status # 0 /\ resp.loader = "getTenantId") =>
    /\ \A v \in Carried : v # <<>> => (resp.status = 200 /\ resp.tenantId = v)
    /\ (~resp.hasHeader \/ Carried = {}) => resp.status = 500
    /\ resp.status = 200 => (resp.tenantId # <<>> /\ resp.tenantId \in Carried)

\* the same, for the cookie values without "="
PlainTenantFromCookie ==
  (/\ resp.status # 0
   /\ resp.loader = "getTenantId"
   /\ \A v \in Carried : \A i \in DOMAIN v : v[i] # "=") =>
    /\ \A v \in Carried : v # <<>> => (resp.status = 200 /\ resp.tenantId = v)
    /\ (~resp.hasHeader \/ Carried = {}) => resp.status = 500
    /\ resp.status = 200 => (resp.tenantId # <<>> /\ resp.tenantId \in Carried)

\* C18: an authenticated dashboard request for which no tenant has been
\* selected renders no dashboard data and reads nothing of a tenant; it ends
\* in the redirect to the store selection.  Hence every dashboard that is
\* rendered answers a request that names its tenant.
C18_NoTenantNoDashboard ==
  (resp.status = 200 /\ resp.loader \in {"dashboard", "part_007"}) =>
    (resp.loader = "dashboard" /\ resp.param # Undefined)

-----------------------------------------------------------------------------
(* Claims about the life of a session *)

\* C11: a request made with the cookie state that a sign-out response
\* (logout or signOut) returned carries no user identity: the gate of the
\* dashboard and of the portal redirects it to /login, without data.
C11_SignedOutIsRedirected ==
  \A r \in Requests :
    gateReq[r].follows # 0 =>
      /\ SessionGet(gateReq[r].cookie, "userEmail") = {}
      /\ SessionGet(gateReq[r].cookie, "userId") = {}
      /\ gateReq[r].pc = "done"
      /\ gateReq[r].location = "/login"
      /\ gateReq[r].queries = 0
      /\ gateReq[r].body = "none"

\* a signed-in client, whose cookie the gate had accepted, signed out and
\* was redirected on its next request
C11_Witness ==
  \E r, q \in Requests :
    /\ gateReq[r].follows = q
    /\ gateReq[q].cookie # <<>>
    /\ ~Redirects(gateReq[q].cookie, GateKey(gateReq[r].route))
    /\ gateReq[r].location = "/login"

\* the instant (d, t) is later than the expiry
LaterThan(d, t, expiresAt) ==
  d > expiresAt.day \/ (d = expiresAt.day /\ t > expiresAt.ms)

\* C12: a request that presents the cookie of a session later than the
\* session's expiry, 30 days after its creation, is redirected to /login.
C12_ExpiredSessionRefused ==
  \A r \in Requests : \A s \in session :
    ( /\ gateReq[r].pc = "done"
      /\ gateReq[r].route = "portal"
      /\ gateReq[r].cookie = ("userId" :> s.userId)
      /\ LaterThan(gateReq[r].day, gateReq[r].at, s.expiresAt) )
    => gateReq[r].location = "/login"

-----------------------------------------------------------------------------
(* Claims about the receivers *)

Deliveries == DOMAIN delivery

Tables == {"orders", "customers", "products"}

\* the rows of the key a delivery writes
RowsOf(c) ==
  FindByKey(Handler(c.handler).table, TenantOf(Handler(c.handler), c.shop),
            ShopifyIdOf(Handler(c.handler), c.id))

C8_FailureSurfaced ==
  \A d \in Deliveries :
    (delivery[d].pc = "done" /\ delivery[d].failed) => delivery[d].status >= 500

\* the tenant_id values of the rows a delivery has written
TenantKeys(c) == { r.tenant_id : r \in RowsOf(c) }

\* C30: for any shop, the order, product and customer receivers persist
\* their rows under the same tenant_id value, so that an order ingested for a
\* shop joins to the customer row ingested for that shop in the top-customer
\* aggregation (c.tenant_id = o.tenant_id AND c.shopify_id = o.customer_id).
C30_OneTenantKeyPerShop ==
  \A d, e \in Deliveries :
    (delivery[d].wrote /\ delivery[e].wrote /\ delivery[d].shop = delivery[e].shop) =>
      /\ TenantKeys(delivery[d]) = TenantKeys(delivery[e])
      /\ ( /\ Handler(delivery[d].handler).table = "orders"
           /\ Handler(delivery[e].handler).table = "customers" ) =>
            \A o \in RowsOf(delivery[d]) :
              o.customer_id = <<delivery[e].id>> =>
                \E c \in customers :
                  c.tenant_id = o.tenant_id /\ c.shopify_id = o.customer_id

\* the same, for the two receivers that lower-case the shop
UpsertsShareTenantKey ==
  \A d, e \in Deliveries :
    ( /\ delivery[d].wrote /\ delivery[e].wrote
      /\ delivery[d].shop = delivery[e].shop
      /\ Handler(delivery[d].handler).lowers
      /\ Handler(delivery[e].handler).lowers ) =>
      TenantKeys(delivery[d]) = TenantKeys(delivery[e])

-----------------------------------------------------------------------------
(* Claims about issuance *)

Sends == DOMAIN sendCall

\* the call was refused by the rate limit: no row, no mail
Refused(c) ==
  /\ c.pc \in {"create", "done"}
  /\ c.token = <<>>
  /\ ~c.mailed
  /\ c.pc = "done" => c.result = "rate_limit"

\* C5 as stated: a call made less than 30 s after an earlier call for the same
\* normalised e-mail returned successfully is refused by the rate limit,
\* inserts no row and sends no mail.
C5_RefusedAfterSuccess ==
  \A s \in Sends : \A q \in sendCall[s].prior :
    ( /\ sendCall[q].email = sendCall[s].email
      /\ sendCall[s].t0 - sendCall[q].tDone < RateLimitMs )
    => Refused(sendCall[s])

\* C5, amended: a call made less than 30 s after the token row of an earlier
\* successful call for the same normalised e-mail was created is refused by
\* the rate limit, inserts no row and sends no mail.
C5_RefusedAfterIssue ==
  \A s \in Sends : \A q \in sendCall[s].prior :
    ( /\ sendCall[q].email = sendCall[s].email
      /\ \E r \in TokenRow(sendCall[q].token) :
            sendCall[s].t0 - r.createdAt < RateLimitMs )
    => Refused(sendCall[s])

\* a second request, typed in another letter case, was refused inside the window
C5_Witness ==
  \E s \in Sends : \E q \in sendCall[s].prior :
    /\ sendCall[q].email = sendCall[s].email
    /\ sendCall[q].rawEmail # sendCall[s].rawEmail
    /\ \E r \in TokenRow(sendCall[q].token) :
          /\ sendCall[s].t0 > r.createdAt
          /\ sendCall[s].t0 - r.createdAt < RateLimitMs
    /\ sendCall[s].pc = "done"
    /\ sendCall[s].result = "rate_limit"
    /\ Cardinality(magicLinkToken) = 1

====
